---- MODULE Spec2Model ----
(***************************************************************************)
(* Account security state machine of py-api/backend/app: the user store   *)
(* (db_helpers.py), the credential and token helpers (auth.py) and the    *)
(* request handlers (routers/auth.py).  Every handler is cut at its store *)
(* operations (the awaits on the document store): one action per store    *)
(* read or write, so that concurrent requests interleave exactly where    *)
(* the event loop can switch between them.                                 *)
(***************************************************************************)
EXTENDS Integers, Sequences, FiniteSets, Bags, TLC

(* ------------------------------ bounds -------------------------------- *)
\* requests that may be in flight together
MaxProcs == 2
\* secrets.token_urlsafe draws: every draw is a fresh value 1..MaxSecrets
MaxSecrets == 2
\* bcrypt.gensalt draws: every draw is a fresh salt 1..MaxSalt
MaxSalt == 2
\* clock ticks the model lets pass
MaxTicks == 1
\* entries of the login history kept by the sequential specifications
MaxLog == 5
\* requests of the burst of concurrent wrong-password logins
MaxBurst == 5
\* cap of failed_login_attempts: no increment is taken beyond it
MaxAttempts == 4
\* calls of check_rate_limit in a behaviour of the limiter specification
MaxCalls == 7
\* the time.time() up to which the limiter specification lets time pass
MaxClock == 60

(* ------------------------- program constants -------------------------- *)
\* "if new_attempts >= 3" in increment_failed_login_attempts
LockThreshold == 3
\* "attempts_remaining = 3 - result[...]" in login
AttemptsAllowed == 3
\* set_activation_token(expires_in_hours = 24)
ActivationHours == 24
\* set_reset_password_token(expires_in_hours = 1)
ResetHours == 1
\* settings.jwt_access_token_expire_minutes
AccessMinutes == 30
\* settings.jwt_refresh_token_expire_days
RefreshDays == 7
\* HTTP status codes the handlers answer with (200 is the default of a route)
HTTP_200_OK == 200
HTTP_201_CREATED == 201
HTTP_400_BAD_REQUEST == 400
HTTP_401_UNAUTHORIZED == 401
HTTP_403_FORBIDDEN == 403
HTTP_500_INTERNAL_SERVER_ERROR == 500

\* "password_history[-3:]" in update_password
HistoryCap == 3

\* the clock counts minutes: timedelta(hours = h) is h * 60 of them,
\* timedelta(days = d) is d * 24 * 60
ActivationTtl == ActivationHours * 60
ResetTtl == ResetHours * 60
AccessTtl == AccessMinutes
RefreshTtl == RefreshDays * 24 * 60


\* Optional values: None is the empty tuple, Some(x) the one-element tuple.
None == <<>>
Some(x) == <<x>>

\* An email is <<name, hasUpperCase>>; str.lower() clears the flag.
lower(email) == <<email[1], FALSE>>

\* emails a client registers with, and emails a client logs in with
RegEmails == {<<"ann", FALSE>>, <<"ann", TRUE>>}
LoginEmails == {<<"ann", FALSE>>, <<"zed", FALSE>>}
Phones == {"555"}
RegPasswords == {"pw1"}
Passwords == {"pw1", "pw2"}

\* A presented secret is <<n, padded>>: padded says it carries surrounding
\* whitespace.  str.strip() clears the flag.  Stored secrets are unpadded.
strip(token) == <<token[1], FALSE>>
SecretInputs == {<<n, FALSE>> : n \in 1..MaxSecrets}

VARIABLES
  users,     \* db.users: the sequence of account documents, _id = index
  now,       \* datetime.utcnow(), in minutes
  ticks,     \* clock ticks taken
  nsecrets,  \* secrets drawn so far from secrets.token_urlsafe
  nsalts,    \* salts drawn so far from bcrypt.gensalt
  held,      \* the token pair the client was handed last, or None
  inflight,  \* bag of the requests being handled: each its position (pc) and locals
  log,       \* history of the answered requests a specification chooses to keep
  outbox,    \* the background tasks added by handlers: each an email to send
  rate_limit_store,  \* middleware.rate_limit_store: per key, the timestamps kept
  clock,     \* time.time(), in seconds
  checked    \* history of check_rate_limit: per key, each call's time and result

vars == <<users, now, ticks, nsecrets, nsalts, held, inflight, log, outbox,
          rate_limit_store, clock, checked>>

(* ----------------------- auth.py: credentials ------------------------- *)
\* bcrypt digest: the plaintext under a salt
hash_password(password, salt) == <<password, salt>>

\* a stored value that is not a digest of hash_password: one whose salt part
\* bcrypt cannot parse, and one with a parsable salt and a cut-off hash
MalformedDigest == <<"not-a-bcrypt-hash">>
TruncatedDigest == <<"pw1", 0, "cut">>

\* bcrypt.checkpw raises ValueError("Invalid salt") when it cannot parse the
\* salt of the digest; verify_password calls it outside any try/except
checkpw_raises(hashed_password) == Len(hashed_password) < 2

verify_password(plain_password, hashed_password) ==
  /\ Len(hashed_password) = 2
  /\ hashed_password[1] = plain_password

(* ------------------------ auth.py: signed tokens ---------------------- *)
\* a signed token: its claims, and whether its signature is the one
\* jwt.encode makes with settings.jwt_secret_key
create_access_token(sub) ==
  [sub |-> sub, type |-> "access", exp |-> now + AccessTtl, signed |-> TRUE]

create_refresh_token(sub) ==
  [sub |-> sub, type |-> "refresh", exp |-> now + RefreshTtl, signed |-> TRUE]

\* a variant without the type check
verify_token_any_type(token, token_type) ==
  IF ~token.signed THEN None
  ELSE IF token.exp < now THEN None
  ELSE Some(token)

\* a variant that does not look at exp
verify_token_no_expiry(token, token_type) ==
  IF ~token.signed THEN None
  ELSE IF token.type # token_type THEN None
  ELSE Some(token)

\* jwt.decode raises JWTError for a signature that does not verify and for a
\* token whose exp has passed, and verify_token catches it and returns None;
\* then the type check
verify_token(token, token_type) ==
  IF ~token.signed THEN None
  ELSE IF token.exp < now THEN None
  ELSE IF token.type # token_type THEN None
  ELSE Some(token)

(* -------------------------- db_helpers.py ----------------------------- *)
is_valid(user_id) == user_id \in 1..Len(users)

\* find_one returns the first matching document: its _id, or None
find_one(hits) ==
  IF hits = {} THEN None
  ELSE Some(CHOOSE i \in hits : \A j \in hits : i <= j)

\* a variant that compares the email as it was typed
get_user_by_email_exact(email) ==
  find_one({i \in 1..Len(users) : users[i].email = email})

get_user_by_email(email) ==
  find_one({i \in 1..Len(users) : users[i].email = lower(email)})

get_user_by_phone(phone_number) ==
  find_one({i \in 1..Len(users) : users[i].phone_number = phone_number})

\* $set of the fields of update_data on document user_id
update_user(user_id, update_data) ==
  [users EXCEPT ![user_id] =
     [f \in DOMAIN @ |-> IF f \in DOMAIN update_data THEN update_data[f] ELSE @[f]]]

\* a variant that sets the flag and leaves the secret stored
activate_user_data_keeps_token == [is_active |-> TRUE]

activate_user_data ==
  [is_active |-> TRUE, activation_token |-> None, activation_token_expires |-> None]

lock_user_account_data == [is_locked |-> TRUE]

\* a variant that clears the flag and leaves the counter
unlock_user_account_flag_only == [is_locked |-> FALSE]

unlock_user_account_data ==
  [is_locked |-> FALSE, failed_login_attempts |-> 0, last_failed_login |-> None]

\* a variant that locks one failure late
increment_update_data_late(new_attempts) ==
  IF new_attempts > LockThreshold
  THEN [failed_login_attempts |-> new_attempts, last_failed_login |-> Some(now),
        is_locked |-> TRUE]
  ELSE [failed_login_attempts |-> new_attempts, last_failed_login |-> Some(now)]

\* a variant that counts and never locks
increment_update_data_counter_only(new_attempts) ==
  [failed_login_attempts |-> new_attempts, last_failed_login |-> Some(now)]

\* update_data of increment_failed_login_attempts for the counter it read
increment_update_data(new_attempts) ==
  IF new_attempts >= LockThreshold
  THEN [failed_login_attempts |-> new_attempts, last_failed_login |-> Some(now),
        is_locked |-> TRUE]
  ELSE [failed_login_attempts |-> new_attempts, last_failed_login |-> Some(now)]

\* a variant that also clears the lock
reset_failed_login_attempts_unlocks ==
  [failed_login_attempts |-> 0, last_failed_login |-> None, is_locked |-> FALSE]

\* a variant that leaves the counter
reset_failed_login_attempts_keeps_count == [last_failed_login |-> None]

reset_failed_login_attempts_data ==
  [failed_login_attempts |-> 0, last_failed_login |-> None]

\* a variant that gives the activation secret the life of a reset secret
set_activation_token_data_short(token) ==
  [activation_token |-> Some(token), activation_token_expires |-> Some(now + ResetTtl)]

set_activation_token_data(token) ==
  [activation_token |-> Some(token),
   activation_token_expires |-> Some(now + ActivationTtl)]

set_reset_password_token_data(token) ==
  [reset_password_token |-> Some(token),
   reset_password_token_expires |-> Some(now + ResetTtl)]

\* a variant that renews the expiry and leaves the secret stored
clear_reset_password_token_data_renews ==
  [reset_password_token_expires |-> Some(now + ResetTtl)]

clear_reset_password_token_data ==
  [reset_password_token |-> None, reset_password_token_expires |-> None]

\* a variant that keeps every entry
LastEntries_all(history) == history

\* password_history[-3:]
LastEntries(history) ==
  IF Len(history) <= HistoryCap THEN history
  ELSE SubSeq(history, Len(history) - HistoryCap + 1, Len(history))

\* a variant that archives the new digest instead of the current one
update_password_data_archives_new(user, new_hashed_password) ==
  [hashed_password |-> new_hashed_password,
   password_history |->
     LastEntries(Append(user.password_history,
                        [hashed_password |-> new_hashed_password, changed_at |-> now]))]

\* update_data of update_password for the document it read
update_password_data(user, new_hashed_password) ==
  [hashed_password |-> new_hashed_password,
   password_history |->
     LastEntries(Append(user.password_history,
                        [hashed_password |-> user.hashed_password, changed_at |-> now]))]

\* check_password_in_history on the stored history
check_password_in_history(user_id, hashed_password) ==
  /\ is_valid(user_id)
  /\ \E i \in 1..Len(users[user_id].password_history) :
       users[user_id].password_history[i].hashed_password = hashed_password

\* get_user_by_activation_token: strip, find_one on the token, then the
\* expiry test "if expires: ... if expires < now: return None"
get_user_by_activation_token(token) ==
  LET found == find_one({i \in 1..Len(users) :
                           users[i].activation_token = Some(strip(token))})
  IN IF found = None THEN None
     ELSE LET expires == users[found[1]].activation_token_expires
          IN IF expires # None /\ expires[1] < now THEN None ELSE found

\* a variant that accepts any secret for an account with an unexpired one
get_user_by_reset_token_any(token) ==
  find_one({i \in 1..Len(users) :
              /\ users[i].reset_password_token # None
              /\ users[i].reset_password_token_expires # None
              /\ users[i].reset_password_token_expires[1] > now})

\* a variant that still accepts the secret at its expiry instant
get_user_by_reset_token_at_expiry(token) ==
  find_one({i \in 1..Len(users) :
              /\ users[i].reset_password_token = Some(token)
              /\ users[i].reset_password_token_expires # None
              /\ users[i].reset_password_token_expires[1] >= now})

\* get_user_by_reset_token: the token and {"$gt": utcnow()} in one query
get_user_by_reset_token(token) ==
  find_one({i \in 1..Len(users) :
              /\ users[i].reset_password_token = Some(token)
              /\ users[i].reset_password_token_expires # None
              /\ users[i].reset_password_token_expires[1] > now})

\* a variant with the unique index on email only
duplicate_key_email_only(doc) ==
  \E i \in 1..Len(users) : users[i].email = doc.email

\* the unique indexes of create_indexes: insert_one raises DuplicateKeyError
duplicate_key(doc) ==
  \E i \in 1..Len(users) :
    \/ users[i].email = doc.email
    \/ users[i].phone_number = doc.phone_number

(* --------------------- middleware.py: the rate limiter ---------------- *)
RateWindow == 60
LoginRegisterLimit == 5
ForgotPasswordLimit == 3
HTTP_429_TOO_MANY_REQUESTS == 429

ClientIps == {"10.0.0.1", "10.0.0.2"}
LimitedPaths == {"/api/register", "/api/login", "/api/forgot-password"}

\* key = f"{client_ip}:{endpoint}"
RateKeys == ClientIps \X LimitedPaths

\* defaultdict(list): every key starts with no timestamp
NoTimestamps == [key \in RateKeys |-> <<>>]

\* cache_middleware: the limit it passes for a path, 0 for a path it lets through
rate_limit(path) ==
  IF path = "/api/register" \/ path = "/api/login" THEN LoginRegisterLimit
  ELSE IF path = "/api/forgot-password" THEN ForgotPasswordLimit
  ELSE 0

\* check_rate_limit, "clean old entries": the timestamps of the key with
\* current_time - timestamp < window
recent(key) == SelectSeq(rate_limit_store[key], LAMBDA t : clock - t < RateWindow)

\* a variant that admits one request more
check_rate_limit_lenient(key, limit) == ~(Len(recent(key)) > limit)

\* check_rate_limit: False when len(rate_limit_store[key]) >= limit
check_rate_limit(key, limit) == ~(Len(recent(key)) >= limit)

\* check_rate_limit: the store it leaves and the history of its calls; the
\* current time is appended when the request is admitted
CheckRateLimit(key, limit) ==
  /\ rate_limit_store' =
       [rate_limit_store EXCEPT ![key] =
          IF check_rate_limit(key, limit) THEN Append(recent(key), clock)
          ELSE recent(key)]
  /\ checked' = [checked EXCEPT ![key] =
                   Append(@, [time |-> clock, ok |-> check_rate_limit(key, limit)])]

(* ------------------------------ state --------------------------------- *)
\* the locals of a handler; pc is the store operation it will do next, started
\* the number of answers in the history when the request arrived
NoReq ==
  [pc |-> "none", op |-> "none", email |-> <<"", FALSE>>, phone |-> "",
   password |-> "", token |-> None, user |-> None, uid |-> 0, check |-> "",
   new_attempts |-> 0, new_hashed_password |-> None,
   started |-> Len(log.entries), recipient |-> <<"", FALSE>>]

NoResp == [status |-> 0, detail |-> "", tokens |-> None, remaining |-> -1]

Reply(status, detail) ==
  [status |-> status, detail |-> detail, tokens |-> None, remaining |-> -1]

\* log.ops: the handlers whose answers the history keeps; log.keep: how many
\* of the latest answers it keeps
NoLog == [ops |-> {}, keep |-> 0, entries |-> <<>>]

Init ==
  /\ users = <<>>
  /\ now = 0
  /\ ticks = 0
  /\ nsecrets = 0
  /\ nsalts = 0
  /\ held = None
  /\ inflight = EmptyBag
  /\ outbox = {}
  /\ rate_limit_store = NoTimestamps
  /\ clock = 0
  /\ checked = NoTimestamps
  /\ log = NoLog

\* a new request can be taken
CanStart == BagCardinality(inflight) < MaxProcs

\* what the history keeps of an answered request: which handler, its inputs, its
\* checks' verdict, the document fields it decided on, its response, the time,
\* and the account before and after the step that answered it
LogEntry(req, reply, after) ==
  [op |-> req.op, uid |-> req.uid, check |-> req.check, user |-> req.user,
   email |-> req.email, phone |-> req.phone, token |-> req.token,
   password |-> req.password, reply |-> reply, at |-> now,
   started |-> req.started,
   before |-> IF req.uid \in 1..Len(users) THEN Some(users[req.uid]) ELSE None,
   after |-> IF req.uid \in 1..Len(after) THEN Some(after[req.uid]) ELSE None]

LastOf(entries, keep) ==
  IF Len(entries) <= keep THEN entries
  ELSE SubSeq(entries, Len(entries) - keep + 1, Len(entries))

Record(req, reply, after) ==
  log' = IF req.op \in log.ops
         THEN [log EXCEPT !.entries =
                 LastOf(Append(@, LogEntry(req, reply, after)), log.keep)]
         ELSE log

\* a request answered by its first store operation: req, with response reply
Answer(req, reply) ==
  /\ UNCHANGED <<inflight, outbox, clock>>
  /\ Record(req, reply, users)

\* the request r in flight is answered with response reply
Finish(r, reply) ==
  /\ inflight' = inflight (-) SetToBag({r})
  /\ Record(r, reply, users')
  /\ UNCHANGED <<outbox, rate_limit_store, clock, checked>>

\* background_tasks.add_task(send, email, token, user_name) and the return of
\* the response: the task runs after the response was sent
FinishWithTask(r, reply, send) ==
  /\ inflight' = inflight (-) SetToBag({r})
  /\ Record(r, reply, users')
  /\ outbox' = outbox \cup {[send |-> send, email |-> r.recipient,
                              token |-> r.token[1], state |-> "added"]}
  /\ UNCHANGED <<rate_limit_store, clock, checked>>

\* a new request goes on to its next store operation
Begin(req) ==
  /\ inflight' = inflight (+) SetToBag({req})
  /\ UNCHANGED <<log, outbox, clock>>

\* the request r in flight goes on, as req, to its next store operation
Goto(r, req) ==
  /\ inflight' = (inflight (-) SetToBag({r})) (+) SetToBag({req})
  /\ UNCHANGED <<log, outbox, rate_limit_store, clock, checked>>

\* a variant that checks is_active before is_locked
login_checks_active_first(user, password) ==
  IF user = None THEN "unknown"
  ELSE IF ~user[1].is_active THEN "inactive"
  ELSE IF user[1].is_locked THEN "locked"
  ELSE IF ~verify_password(password, user[1].hashed_password) THEN "wrong"
  ELSE "ok"

\* a variant without the is_active check
login_checks_no_active(user, password) ==
  IF user = None THEN "unknown"
  ELSE IF user[1].is_locked THEN "locked"
  ELSE IF ~verify_password(password, user[1].hashed_password) THEN "wrong"
  ELSE "ok"

\* a variant that checks the password before is_active
login_checks_password_first(user, password) ==
  IF user = None THEN "unknown"
  ELSE IF user[1].is_locked THEN "locked"
  ELSE IF ~verify_password(password, user[1].hashed_password) THEN "wrong"
  ELSE IF ~user[1].is_active THEN "inactive"
  ELSE "ok"

(* ------------------------- routers/auth.py: login --------------------- *)
\* The checks login makes on the document it read, in the order of the code.
login_checks(user, password) ==
  IF user = None THEN "unknown"
  ELSE IF user[1].is_locked THEN "locked"
  ELSE IF ~user[1].is_active THEN "inactive"
  ELSE IF checkpw_raises(user[1].hashed_password) THEN "raised"
  ELSE IF ~verify_password(password, user[1].hashed_password) THEN "wrong"
  ELSE "ok"

\* the details of the errors login raises
InvalidCredentialsDetail == "Invalid email or password"
AccountIsLockedDetail ==
  "Account is locked due to multiple failed login attempts. Please contact support."
NotActivatedDetail ==
  "Account not activated. Please check your email and activate your account."
AccountLockedNowDetail ==
  "Account locked due to 3 consecutive failed login attempts. Please contact support."
\* f"Invalid email or password. {attempts_remaining} attempt(s) remaining.": the
\* number is the field remaining of the response
AttemptsRemainingDetail == "Invalid email or password. {attempts_remaining} attempt(s) remaining."

\* the exception of bcrypt.checkpw, which no handler catches
InvalidSaltError == "ValueError: Invalid salt"

\* what login answers when a check on the document it read fails
login_check_reply(check) ==
  CASE check = "unknown" -> Reply(HTTP_401_UNAUTHORIZED, InvalidCredentialsDetail)
    [] check = "locked" -> Reply(HTTP_403_FORBIDDEN, AccountIsLockedDetail)
    [] check = "inactive" -> Reply(HTTP_403_FORBIDDEN, NotActivatedDetail)
    [] check = "raised" -> Reply(HTTP_500_INTERNAL_SERVER_ERROR, InvalidSaltError)

\* the fields login reads of the document it was given
LoginView(doc) ==
  [is_locked |-> doc.is_locked, is_active |-> doc.is_active,
   hashed_password |-> doc.hashed_password]

\* user = await get_user_by_email(credentials.email), and the checks up to the
\* next store operation
LoginCall(email, password) ==
  /\ LET found == get_user_by_email(email)
         user == IF found = None THEN None ELSE Some(LoginView(users[found[1]]))
         check == login_checks(user, password)
         req == [NoReq EXCEPT !.op = "login", !.password = password, !.user = user,
                              !.uid = IF found = None THEN 0 ELSE found[1],
                              !.check = check]
     IN CASE check = "wrong" -> Begin([req EXCEPT !.pc = "login_inc_read"])
          [] check = "ok" -> Begin([req EXCEPT !.pc = "login_reset"])
          [] OTHER -> Answer(req, login_check_reply(check))
  /\ UNCHANGED <<users, now, ticks, nsecrets, nsalts, held>>

\* login called without the limiter of cache_middleware: its store is left as
\* it is
LoginRead(email, password) ==
  /\ LoginCall(email, password)
  /\ UNCHANGED <<rate_limit_store, checked>>

\* increment_failed_login_attempts: user = await get_user_by_id(user_id)
LoginIncRead(r) ==
  /\ r.pc = "login_inc_read"
  /\ is_valid(r.uid)
  /\ users[r.uid].failed_login_attempts < MaxAttempts
  /\ Goto(r, [r EXCEPT !.pc = "login_inc_write",
                       !.new_attempts = users[r.uid].failed_login_attempts + 1])
  /\ UNCHANGED <<users, now, ticks, nsecrets, nsalts, held>>

\* a variant that reports the attempts that remained before this failure
login_failed_reply_stale(new_attempts) ==
  IF new_attempts >= LockThreshold
  THEN Reply(HTTP_403_FORBIDDEN, AccountLockedNowDetail)
  ELSE [Reply(HTTP_401_UNAUTHORIZED, AttemptsRemainingDetail)
          EXCEPT !.remaining = AttemptsAllowed - (new_attempts - 1)]

\* what login answers after increment_failed_login_attempts returned
login_failed_reply(new_attempts) ==
  IF new_attempts >= LockThreshold
  THEN Reply(HTTP_403_FORBIDDEN, AccountLockedNowDetail)
  ELSE [Reply(HTTP_401_UNAUTHORIZED, AttemptsRemainingDetail)
          EXCEPT !.remaining = AttemptsAllowed - new_attempts]

\* increment_failed_login_attempts: await update_user(user_id, update_data),
\* then the answer of login
LoginIncWrite(r) ==
  /\ r.pc = "login_inc_write"
  /\ users' = update_user(r.uid, increment_update_data(r.new_attempts))
  /\ Finish(r, login_failed_reply(r.new_attempts))
  /\ UNCHANGED <<now, ticks, nsecrets, nsalts, held>>

\* await reset_failed_login_attempts(user_id), then the tokens and the answer
LoginReset(r) ==
  /\ r.pc = "login_reset"
  /\ users' = update_user(r.uid, reset_failed_login_attempts_data)
  /\ LET pair == <<create_access_token(r.uid), create_refresh_token(r.uid)>>
     IN /\ held' = Some(pair)
        /\ Finish(r, [Reply(HTTP_200_OK, "Login successful") EXCEPT !.tokens = Some(pair)])
  /\ UNCHANGED <<now, ticks, nsecrets, nsalts>>

(* ----------------------- routers/auth.py: register -------------------- *)
\* the document register builds
user_doc(email, phone_number, hashed_password) ==
  [email |-> lower(email), phone_number |-> phone_number,
   hashed_password |-> hashed_password,
   is_active |-> FALSE, is_locked |-> FALSE, failed_login_attempts |-> 0,
   last_failed_login |-> None, password_history |-> <<>>,
   activation_token |-> None, activation_token_expires |-> None,
   reset_password_token |-> None, reset_password_token_expires |-> None]

\* the UserRegisterResponse
register_reply == Reply(HTTP_201_CREATED, "Registration successful")

\* existing_user = await get_user_by_email(user_data.email)
RegisterCall(email, phone_number, password) ==
  /\ LET req == [NoReq EXCEPT !.op = "register", !.email = email,
                              !.phone = phone_number, !.password = password]
     IN IF get_user_by_email(email) # None
        THEN Answer(req, Reply(HTTP_400_BAD_REQUEST, "Email already registered"))
        ELSE Begin([req EXCEPT !.pc = "register_phone"])
  /\ UNCHANGED <<users, now, ticks, nsecrets, nsalts, held>>

\* register called without the limiter of cache_middleware
RegisterCheckEmail(email, phone_number, password) ==
  /\ RegisterCall(email, phone_number, password)
  /\ UNCHANGED <<rate_limit_store, checked>>

\* existing_phone = await get_user_by_phone(user_data.phone_number)
RegisterCheckPhone(r) ==
  /\ r.pc = "register_phone"
  /\ UNCHANGED <<users, now, ticks, nsecrets, nsalts, held>>
  /\ IF get_user_by_phone(r.phone) # None
     THEN Finish(r, Reply(HTTP_400_BAD_REQUEST, "Phone number already registered"))
     ELSE Goto(r, [r EXCEPT !.pc = "register_insert"])

\* hash_password, create_activation_token, user_id = await create_user(user_doc)
RegisterInsert(r) ==
  /\ r.pc = "register_insert"
  /\ nsecrets < MaxSecrets
  /\ nsalts < MaxSalt
  /\ nsalts' = nsalts + 1
  /\ nsecrets' = nsecrets + 1
  /\ LET doc == user_doc(r.email, r.phone, hash_password(r.password, nsalts + 1))
     IN IF duplicate_key(doc)
        THEN /\ UNCHANGED users
             /\ Finish(r, Reply(HTTP_500_INTERNAL_SERVER_ERROR, "DuplicateKeyError"))
        ELSE /\ users' = Append(users, doc)
             /\ Goto(r, [NoReq EXCEPT !.pc = "register_token", !.op = r.op,
                                      !.started = r.started,
                                      !.uid = Len(users) + 1,
                                      !.token = Some(<<nsecrets + 1, FALSE>>),
                                      !.recipient = lower(r.email)])
  /\ UNCHANGED <<now, ticks, held>>

\* await set_activation_token(user_id, activation_token), then add_task of
\* send_activation_email to user_data.email.lower().strip(), and the answer
RegisterSetToken(r) ==
  /\ r.pc = "register_token"
  /\ users' = update_user(r.uid, set_activation_token_data(r.token[1]))
  /\ FinishWithTask(r, register_reply, "send_activation_email")
  /\ UNCHANGED <<now, ticks, nsecrets, nsalts, held>>

(* ----------------------- routers/auth.py: activate -------------------- *)
\* user = await get_user_by_activation_token(activation_data.token)
ActivateRead(token) ==
  /\ LET found == get_user_by_activation_token(token)
         req == [NoReq EXCEPT !.op = "activate", !.token = Some(token),
                              !.uid = IF found = None THEN 0 ELSE found[1]]
     IN IF found = None
        THEN Answer(req, Reply(HTTP_400_BAD_REQUEST, "Invalid or expired activation token"))
        ELSE Begin([req EXCEPT !.pc = "activate_write"])
  /\ UNCHANGED <<users, now, ticks, nsecrets, nsalts, held>>
  /\ UNCHANGED <<rate_limit_store, checked>>

\* await activate_user(user_id), then the answer
ActivateWrite(r) ==
  /\ r.pc = "activate_write"
  /\ users' = update_user(r.uid, activate_user_data)
  /\ Finish(r, Reply(HTTP_200_OK, "Account activated successfully. You can now log in."))
  /\ UNCHANGED <<now, ticks, nsecrets, nsalts, held>>

(* ------------------- dependencies.py: get_current_user ---------------- *)
\* the checks of get_current_user on the token and on the document it read
current_user_checks(payload, user) ==
  IF payload = None THEN "bad_token"
  ELSE IF user = None THEN "not_found"
  ELSE IF ~user[1].is_active THEN "inactive"
  ELSE IF user[1].is_locked THEN "locked"
  ELSE "ok"

current_user_reply(check) ==
  CASE check = "bad_token" ->
         Reply(HTTP_401_UNAUTHORIZED, "Invalid authentication credentials")
    [] check = "not_found" -> Reply(HTTP_401_UNAUTHORIZED, "User not found")
    [] check = "inactive" ->
         Reply(HTTP_403_FORBIDDEN,
               "Account not activated. Please activate your account to continue.")
    [] check = "locked" ->
         Reply(HTTP_403_FORBIDDEN, "Account is locked. Please contact support.")

(* ------------------- routers/users.py: get_user_profile -------------- *)
\* get_current_user (verify_token as access, its read of the account and its
\* checks), then the profile of the document it read
GetUserProfile(token) ==
  /\ LET payload == verify_token(token, "access")
         user == IF payload # None /\ is_valid(payload[1].sub)
                 THEN Some(LoginView(users[payload[1].sub])) ELSE None
         check == current_user_checks(payload, user)
         req == [NoReq EXCEPT !.op = "get_user_profile", !.check = check,
                              !.token = Some(token),
                              !.uid = IF user = None THEN 0 ELSE payload[1].sub]
     IN IF check # "ok"
        THEN Answer(req, current_user_reply(check))
        ELSE Answer(req, Reply(HTTP_200_OK, "UserProfile"))
  /\ UNCHANGED <<users, now, ticks, nsecrets, nsalts, held>>
  /\ UNCHANGED <<rate_limit_store, checked>>

(* ------------------- routers/auth.py: change_password ----------------- *)
CurrentPasswordIncorrectDetail == "Current password is incorrect"

\* get_current_user (its read of the account), verify_password on the document
\* it returned and hash_password of the new password
ChangePasswordAuth(token, current_password, new_password) ==
  /\ LET payload == verify_token(token, "access")
         user == IF payload # None /\ is_valid(payload[1].sub)
                 THEN Some(LoginView(users[payload[1].sub])) ELSE None
         check == current_user_checks(payload, user)
         req == [NoReq EXCEPT !.op = "change_password", !.check = check,
                              !.password = new_password,
                              !.uid = IF user = None THEN 0 ELSE payload[1].sub]
     IN IF check # "ok"
        THEN /\ Answer(req, current_user_reply(check))
             /\ UNCHANGED nsalts
        ELSE IF checkpw_raises(user[1].hashed_password)
        THEN /\ Answer(req, Reply(HTTP_500_INTERNAL_SERVER_ERROR, InvalidSaltError))
             /\ UNCHANGED nsalts
        ELSE IF ~verify_password(current_password, user[1].hashed_password)
        THEN /\ Answer(req, Reply(HTTP_400_BAD_REQUEST, CurrentPasswordIncorrectDetail))
             /\ UNCHANGED nsalts
        ELSE /\ nsalts < MaxSalt
             /\ nsalts' = nsalts + 1
             /\ Begin([req EXCEPT !.pc = "password_history",
                                  !.new_hashed_password =
                                     Some(hash_password(new_password, nsalts + 1))])
  /\ UNCHANGED <<users, now, ticks, nsecrets, held>>
  /\ UNCHANGED <<rate_limit_store, checked>>

\* await check_password_in_history(user_id, new_hashed_password)
PasswordHistoryCheck(r) ==
  /\ r.pc = "password_history"
  /\ UNCHANGED <<users, now, ticks, nsecrets, nsalts, held>>
  /\ IF check_password_in_history(r.uid, r.new_hashed_password[1])
     THEN Finish(r, Reply(HTTP_400_BAD_REQUEST,
            "New password cannot be the same as any of your last 3 passwords"))
     ELSE Goto(r, [r EXCEPT !.pc = "update_password_read"])

\* the fields update_password reads of the document it was given
PasswordView(doc) ==
  [hashed_password |-> doc.hashed_password, password_history |-> doc.password_history]

\* update_password: user = await get_user_by_id(user_id)
UpdatePasswordRead(r) ==
  /\ r.pc = "update_password_read"
  /\ is_valid(r.uid)
  /\ Goto(r, [r EXCEPT !.pc = "update_password_write",
                       !.user = Some(PasswordView(users[r.uid]))])
  /\ UNCHANGED <<users, now, ticks, nsecrets, nsalts, held>>

\* update_password: await db.users.update_one(...), then what the handler
\* does next: change_password answers, reset_password clears the secret
UpdatePasswordWrite(r) ==
  /\ r.pc = "update_password_write"
  /\ users' = update_user(r.uid,
                update_password_data(r.user[1], r.new_hashed_password[1]))
  /\ IF r.op = "reset_password"
     THEN Goto(r, [r EXCEPT !.pc = "reset_clear", !.user = None, !.password = "",
                            !.new_hashed_password = None])
     ELSE Finish(r, Reply(HTTP_200_OK, "Password changed successfully"))
  /\ UNCHANGED <<now, ticks, nsecrets, nsalts, held>>

(* ------------------- routers/auth.py: forgot_password ----------------- *)
\* the answer after set_reset_password_token
forgot_password_reply ==
  Reply(HTTP_200_OK, "If the email exists, a password reset link has been sent.")

\* a variant that tells the client that the email has no account
forgot_password_unknown_reply_tells ==
  Reply(HTTP_400_BAD_REQUEST, "Email not found")

\* the answer of "if not user"
forgot_password_unknown_reply ==
  Reply(HTTP_200_OK, "If the email exists, a password reset link has been sent.")

\* user = await get_user_by_email(forgot_data.email), create_reset_password_token
ForgotPasswordCall(email) ==
  /\ LET found == get_user_by_email(email)
         req == [NoReq EXCEPT !.op = "forgot_password", !.email = email,
                              !.uid = IF found = None THEN 0 ELSE found[1]]
     IN IF found = None
        THEN /\ Answer(req, forgot_password_unknown_reply)
             /\ UNCHANGED nsecrets
        ELSE /\ nsecrets < MaxSecrets
             /\ nsecrets' = nsecrets + 1
             /\ Begin([req EXCEPT !.pc = "forgot_write",
                                  !.token = Some(<<nsecrets + 1, FALSE>>),
                                  !.recipient = users[found[1]].email])
  /\ UNCHANGED <<users, now, ticks, nsalts, held>>

\* forgot_password called without the limiter of cache_middleware
ForgotPasswordRead(email) ==
  /\ ForgotPasswordCall(email)
  /\ UNCHANGED <<rate_limit_store, checked>>

\* await set_reset_password_token(user_id, reset_token), then add_task of
\* send_password_reset_email to user["email"], and the answer
ForgotPasswordWrite(r) ==
  /\ r.pc = "forgot_write"
  /\ users' = update_user(r.uid, set_reset_password_token_data(r.token[1]))
  /\ FinishWithTask(r, forgot_password_reply, "send_password_reset_email")
  /\ UNCHANGED <<now, ticks, nsecrets, nsalts, held>>

(* ------------------- routers/auth.py: reset_password ------------------ *)
\* user = await get_user_by_reset_token(reset_data.token), hash_password
ResetPasswordRead(token, new_password) ==
  /\ LET found == get_user_by_reset_token(token)
         req == [NoReq EXCEPT !.op = "reset_password", !.token = Some(token),
                              !.password = new_password,
                              !.uid = IF found = None THEN 0 ELSE found[1]]
     IN IF found = None
        THEN /\ Answer(req, Reply(HTTP_400_BAD_REQUEST, "Invalid or expired reset token"))
             /\ UNCHANGED nsalts
        ELSE /\ nsalts < MaxSalt
             /\ nsalts' = nsalts + 1
             /\ Begin([req EXCEPT !.pc = "password_history",
                                  !.new_hashed_password =
                                     Some(hash_password(new_password, nsalts + 1))])
  /\ UNCHANGED <<users, now, ticks, nsecrets, held>>
  /\ UNCHANGED <<rate_limit_store, checked>>

\* await clear_reset_password_token(user_id), then the answer
ResetPasswordClear(r) ==
  /\ r.pc = "reset_clear"
  /\ users' = update_user(r.uid, clear_reset_password_token_data)
  /\ Finish(r, Reply(HTTP_200_OK, "Password reset successfully"))
  /\ UNCHANGED <<now, ticks, nsecrets, nsalts, held>>

(* -------------------- routers/auth.py: refresh_token ------------------ *)
\* verify_token(..., "refresh"); then get_user_by_id, a name routers/auth.py
\* never imports: the call raises NameError and the request fails
RefreshToken(token) ==
  /\ LET payload == verify_token(token, "refresh")
         req == [NoReq EXCEPT !.op = "refresh_token", !.token = Some(token),
                              !.uid = IF payload = None THEN 0 ELSE payload[1].sub]
     IN IF payload = None
        THEN Answer(req, Reply(HTTP_401_UNAUTHORIZED, "Invalid or expired refresh token"))
        ELSE Answer(req, Reply(HTTP_500_INTERNAL_SERVER_ERROR, "NameError: get_user_by_id"))
  /\ UNCHANGED <<users, now, ticks, nsecrets, nsalts, held>>
  /\ UNCHANGED <<rate_limit_store, checked>>

(* ------------------- email_service.py: the notifier ------------------- *)
\* how a send ends: the provider accepted the message, it refused it, or the
\* send raised; send_activation_email and send_password_reset_email catch every
\* exception and return False
SendOutcomes == {"sent", "refused", "exception"}

\* the bool the send returns, which BackgroundTasks discards
send_returns(outcome) == outcome = "sent"

\* a variant that takes the secret back from the account when the send failed
send_email_users_takes_back(task, outcome) ==
  IF send_returns(outcome) THEN users
  ELSE [i \in 1..Len(users) |->
          IF users[i].activation_token = Some(task.token)
          THEN [users[i] EXCEPT !.activation_token = None]
          ELSE IF users[i].reset_password_token = Some(task.token)
          THEN [users[i] EXCEPT !.reset_password_token = None]
          ELSE users[i]]

\* db.users after a send: the notifier reads and writes no account
send_email_users(task, outcome) == users

\* a background task runs, after the response of the request that added it
SendEmail(task, outcome) ==
  /\ task \in outbox
  /\ task.state = "added"
  /\ outbox' = (outbox \ {task}) \cup {[task EXCEPT !.state = outcome]}
  /\ users' = send_email_users(task, outcome)
  /\ UNCHANGED <<now, ticks, nsecrets, nsalts, held, inflight, log>>
  /\ UNCHANGED <<rate_limit_store, clock, checked>>

(* ------------------ middleware.py: cache_middleware ------------------- *)
TooManyRequestsDetail == "Too many requests. Please try again later."

\* cache_middleware returns the JSONResponse 429; call_next is not called
TooManyRequests ==
  /\ Answer([NoReq EXCEPT !.op = "cache_middleware"],
            Reply(HTTP_429_TOO_MANY_REQUESTS, TooManyRequestsDetail))
  /\ UNCHANGED <<users, now, ticks, nsecrets, nsalts, held>>

\* POST /api/login through cache_middleware
LimitedLogin(client_ip, email, password) ==
  /\ CheckRateLimit(<<client_ip, "/api/login">>, rate_limit("/api/login"))
  /\ IF check_rate_limit(<<client_ip, "/api/login">>, rate_limit("/api/login"))
     THEN LoginCall(email, password)
     ELSE TooManyRequests

\* POST /api/register through cache_middleware
LimitedRegister(client_ip, email, phone_number, password) ==
  /\ CheckRateLimit(<<client_ip, "/api/register">>, rate_limit("/api/register"))
  /\ IF check_rate_limit(<<client_ip, "/api/register">>, rate_limit("/api/register"))
     THEN RegisterCall(email, phone_number, password)
     ELSE TooManyRequests

\* POST /api/forgot-password through cache_middleware
LimitedForgotPassword(client_ip, email) ==
  /\ CheckRateLimit(<<client_ip, "/api/forgot-password">>,
                    rate_limit("/api/forgot-password"))
  /\ IF check_rate_limit(<<client_ip, "/api/forgot-password">>,
                         rate_limit("/api/forgot-password"))
     THEN ForgotPasswordCall(email)
     ELSE TooManyRequests

(* ------------------------ administrative unlock ----------------------- *)
\* unlock_user_account(user_id): one update_user
Unlock(user_id) ==
  /\ is_valid(user_id)
  /\ users' = update_user(user_id, unlock_user_account_data)
  /\ Record([NoReq EXCEPT !.op = "unlock", !.uid = user_id], NoResp, users')
  /\ UNCHANGED <<now, ticks, nsecrets, nsalts, held, inflight, outbox,
                 rate_limit_store, clock, checked>>

\* lock_user_account(user_id): one update_user; no handler calls it
LockUserAccount(user_id) ==
  /\ is_valid(user_id)
  /\ users' = update_user(user_id, lock_user_account_data)
  /\ Record([NoReq EXCEPT !.op = "lock", !.uid = user_id], NoResp, users')
  /\ UNCHANGED <<now, ticks, nsecrets, nsalts, held, inflight, outbox,
                 rate_limit_store, clock, checked>>

(* ------------------------------ the clock ----------------------------- *)
TickSteps == {ResetTtl, ActivationTtl, ActivationTtl + 1}

\* time passes between two requests, in seconds
SleepSteps == {RateWindow - 1, RateWindow}

Sleep(s) ==
  /\ clock + s <= MaxClock
  /\ clock' = clock + s
  /\ now' = (clock + s) \div 60
  /\ UNCHANGED <<users, ticks, nsecrets, nsalts, held, inflight, log, outbox,
                 rate_limit_store, checked>>

Tick(d) ==
  /\ ticks < MaxTicks
  /\ now' = now + d
  /\ ticks' = ticks + 1
  /\ clock' = clock + 60 * d
  /\ UNCHANGED <<users, nsecrets, nsalts, held, inflight, log, outbox,
                 rate_limit_store, checked>>

(* --------------------------- specifications --------------------------- *)
\* the signed tokens a client can present: those of the pair it holds
HeldTokens == IF held = None THEN {} ELSE {held[1][1], held[1][2]}

\* a request arrives and does its first store operation
Arrive ==
  \/ \E email \in LoginEmails, password \in Passwords :
       CanStart /\ LoginRead(email, password)
  \/ \E email \in RegEmails, phone \in Phones, password \in RegPasswords :
       CanStart /\ RegisterCheckEmail(email, phone, password)
  \/ \E token \in SecretInputs : CanStart /\ ActivateRead(token)
  \/ \E token \in HeldTokens, current \in Passwords, new \in Passwords :
       CanStart /\ ChangePasswordAuth(token, current, new)
  \/ \E email \in LoginEmails : CanStart /\ ForgotPasswordRead(email)
  \/ \E token \in SecretInputs, new \in Passwords :
       CanStart /\ ResetPasswordRead(token, new)
  \/ \E token \in HeldTokens : CanStart /\ RefreshToken(token)

\* a request in flight does its next store operation
Continue ==
  \/ \E r \in BagToSet(inflight) : LoginIncRead(r)
  \/ \E r \in BagToSet(inflight) : LoginIncWrite(r)
  \/ \E r \in BagToSet(inflight) : LoginReset(r)
  \/ \E r \in BagToSet(inflight) : RegisterCheckPhone(r)
  \/ \E r \in BagToSet(inflight) : RegisterInsert(r)
  \/ \E r \in BagToSet(inflight) : RegisterSetToken(r)
  \/ \E r \in BagToSet(inflight) : ActivateWrite(r)
  \/ \E r \in BagToSet(inflight) : PasswordHistoryCheck(r)
  \/ \E r \in BagToSet(inflight) : UpdatePasswordRead(r)
  \/ \E r \in BagToSet(inflight) : UpdatePasswordWrite(r)
  \/ \E r \in BagToSet(inflight) : ForgotPasswordWrite(r)
  \/ \E r \in BagToSet(inflight) : ResetPasswordClear(r)

Next ==
  \/ Arrive
  \/ Continue
  \/ \E u \in 1..Len(users) : Unlock(u)

\* Concurrent requests, at most MaxProcs in flight, on the empty store.
Spec == Init /\ [][Next]_vars

\* Requests run one after another, and the history of logins and unlocks is kept.
SeqInit ==
  /\ users = <<>>
  /\ now = 0
  /\ ticks = 0
  /\ nsecrets = 0
  /\ nsalts = 0
  /\ held = None
  /\ inflight = EmptyBag
  /\ outbox = {}
  /\ rate_limit_store = NoTimestamps
  /\ clock = 0
  /\ checked = NoTimestamps
  /\ log = [ops |-> {"login", "unlock"}, keep |-> MaxLog, entries |-> <<>>]

\* the history has room for the answer of one more request
LogOpen == Len(log.entries) < MaxLog
\* no request is in flight: the next one starts after the last one was answered
Idle == inflight = EmptyBag /\ LogOpen

\* the requests of the login lifecycle (register, activate, login), one at a
\* time, and the unlock
SeqNext ==
  \/ \E email \in LoginEmails, password \in Passwords :
       Idle /\ LoginRead(email, password)
  \/ \E email \in RegEmails, phone \in Phones, password \in RegPasswords :
       Idle /\ RegisterCheckEmail(email, phone, password)
  \/ \E token \in SecretInputs : Idle /\ ActivateRead(token)
  \/ \E u \in 1..Len(users) : Idle /\ Unlock(u)
  \/ \E r \in BagToSet(inflight) : LogOpen /\ LoginIncRead(r)
  \/ \E r \in BagToSet(inflight) : LogOpen /\ LoginIncWrite(r)
  \/ \E r \in BagToSet(inflight) : LogOpen /\ LoginReset(r)
  \/ \E r \in BagToSet(inflight) : LogOpen /\ RegisterCheckPhone(r)
  \/ \E r \in BagToSet(inflight) : LogOpen /\ RegisterInsert(r)
  \/ \E r \in BagToSet(inflight) : LogOpen /\ RegisterSetToken(r)
  \/ \E r \in BagToSet(inflight) : LogOpen /\ ActivateWrite(r)

SeqSpec == SeqInit /\ [][SeqNext]_vars

\* As SeqSpec, and an administrator may also call lock_user_account.
LockNext ==
  \/ SeqNext
  \/ \E u \in 1..Len(users) : Idle /\ LockUserAccount(u)

LockSpec == SeqInit /\ [][LockNext]_vars

\* A burst of wrong-password logins on a fresh, activated account: the account
\* as register and activate leave it, and up to MaxBurst login requests.
BurstEmail == <<"ann", FALSE>>
BurstPassword == "pw1"
WrongPasswords == Passwords \ {BurstPassword}

BurstInit ==
  /\ users = <<[user_doc(BurstEmail, "555", hash_password(BurstPassword, 1))
                  EXCEPT !.is_active = TRUE]>>
  /\ now = 0
  /\ ticks = 0
  /\ nsecrets = 1
  /\ nsalts = 1
  /\ held = None
  /\ inflight = EmptyBag
  /\ outbox = {}
  /\ rate_limit_store = NoTimestamps
  /\ clock = 0
  /\ checked = NoTimestamps
  /\ log = [ops |-> {"login"}, keep |-> MaxBurst, entries |-> <<>>]

BurstNext ==
  \/ /\ Len(log.entries) + BagCardinality(inflight) < MaxBurst
     /\ \E password \in WrongPasswords : LoginRead(BurstEmail, password)
  \/ \E r \in BagToSet(inflight) : LoginIncRead(r)
  \/ \E r \in BagToSet(inflight) : LoginIncWrite(r)

BurstSpec == BurstInit /\ [][BurstNext]_vars

\* The secrets' life cycle with the clock: register, activate, forgot and
\* reset password, one request at a time, the clock moving between requests;
\* the history keeps the latest answer.  A client may present a secret padded
\* with whitespace.
PresentedSecrets == {<<n, padded>> : n \in 1..MaxSecrets, padded \in BOOLEAN}

TokenInit ==
  /\ users = <<>>
  /\ now = 0
  /\ ticks = 0
  /\ nsecrets = 0
  /\ nsalts = 0
  /\ held = None
  /\ inflight = EmptyBag
  /\ outbox = {}
  /\ rate_limit_store = NoTimestamps
  /\ clock = 0
  /\ checked = NoTimestamps
  /\ log = [ops |-> {"register", "activate", "forgot_password", "reset_password"},
            keep |-> 1, entries |-> <<>>]

TokenNext ==
  \/ \E email \in RegEmails, phone \in Phones, password \in RegPasswords :
       inflight = EmptyBag /\ RegisterCheckEmail(email, phone, password)
  \/ \E token \in PresentedSecrets : inflight = EmptyBag /\ ActivateRead(token)
  \/ \E email \in LoginEmails : inflight = EmptyBag /\ ForgotPasswordRead(email)
  \/ \E token \in PresentedSecrets, new \in Passwords :
       inflight = EmptyBag /\ ResetPasswordRead(token, new)
  \/ \E d \in TickSteps : inflight = EmptyBag /\ Tick(d)
  \/ \E r \in BagToSet(inflight) : RegisterCheckPhone(r)
  \/ \E r \in BagToSet(inflight) : RegisterInsert(r)
  \/ \E r \in BagToSet(inflight) : RegisterSetToken(r)
  \/ \E r \in BagToSet(inflight) : ActivateWrite(r)
  \/ \E r \in BagToSet(inflight) : ForgotPasswordWrite(r)
  \/ \E r \in BagToSet(inflight) : PasswordHistoryCheck(r)
  \/ \E r \in BagToSet(inflight) : UpdatePasswordRead(r)
  \/ \E r \in BagToSet(inflight) : UpdatePasswordWrite(r)
  \/ \E r \in BagToSet(inflight) : ResetPasswordClear(r)

TokenSpec == TokenInit /\ [][TokenNext]_vars

\* Concurrent registrations: clients register with emails that differ in case
\* only, with different emails and with the same or different phone numbers;
\* the history keeps the latest answer.
RaceEmails == {<<"ann", FALSE>>, <<"ann", TRUE>>, <<"bob", FALSE>>}
RacePhones == {"555", "777"}

RegInit ==
  /\ users = <<>>
  /\ now = 0
  /\ ticks = 0
  /\ nsecrets = 0
  /\ nsalts = 0
  /\ held = None
  /\ inflight = EmptyBag
  /\ outbox = {}
  /\ rate_limit_store = NoTimestamps
  /\ clock = 0
  /\ checked = NoTimestamps
  /\ log = [ops |-> {"register"}, keep |-> 1, entries |-> <<>>]

RegNext ==
  \/ \E email \in RaceEmails, phone \in RacePhones, password \in RegPasswords :
       CanStart /\ RegisterCheckEmail(email, phone, password)
  \/ \E r \in BagToSet(inflight) : RegisterCheckPhone(r)
  \/ \E r \in BagToSet(inflight) : RegisterInsert(r)
  \/ \E r \in BagToSet(inflight) : RegisterSetToken(r)

RegSpec == RegInit /\ [][RegNext]_vars

\* Activation under concurrency and time: one registration, then activation
\* requests in flight together, presenting the secret as stored or padded with
\* whitespace, while the clock passes the expiry; the history keeps every
\* activation answer.
ActInit ==
  /\ users = <<>>
  /\ now = 0
  /\ ticks = 0
  /\ nsecrets = 0
  /\ nsalts = 0
  /\ held = None
  /\ inflight = EmptyBag
  /\ outbox = {}
  /\ rate_limit_store = NoTimestamps
  /\ clock = 0
  /\ checked = NoTimestamps
  /\ log = [ops |-> {"activate"}, keep |-> MaxLog, entries |-> <<>>]

\* the history has room for the answers of the requests in flight and one more
ActOpen == Len(log.entries) + BagCardinality(inflight) <= MaxProcs

\* the secrets issued so far, as issued or padded with whitespace
IssuedSecrets == {<<n, padded>> : n \in 1..nsecrets, padded \in BOOLEAN}

ActNext ==
  \/ \E email \in RegEmails, phone \in Phones, password \in RegPasswords :
       inflight = EmptyBag /\ RegisterCheckEmail(email, phone, password)
  \/ \E r \in BagToSet(inflight) : RegisterCheckPhone(r)
  \/ \E r \in BagToSet(inflight) : RegisterInsert(r)
  \/ \E r \in BagToSet(inflight) : RegisterSetToken(r)
  \/ \E token \in IssuedSecrets :
       /\ CanStart
       /\ ActOpen
       /\ \A r \in BagToSet(inflight) : r.op = "activate"
       /\ ActivateRead(token)
  \/ \E r \in BagToSet(inflight) : ActivateWrite(r)
  \/ \E d \in TickSteps : Tick(d)

ActSpec == ActInit /\ [][ActNext]_vars

RECURSIVE EarlierPasswords(_)
\* Password operations under concurrency: an activated account that has
\* already changed its password as many times as the history keeps entries and
\* holds a token pair; changes, forgot/reset pairs and registrations (whose
\* accounts start with an empty history) in flight together.
\* The k earlier digests have the salts drawn before this run (-k .. -1, the
\* current one 0) and alternate between the two plaintexts.
EarlierPasswords(k) ==
  IF k = 0 THEN <<>>
  ELSE <<[hashed_password |-> hash_password(IF k % 2 = 1 THEN "pw2" ELSE "pw1", -k),
          changed_at |-> 0]>> \o EarlierPasswords(k - 1)

PwAccount(k) ==
  [user_doc(<<"zed", FALSE>>, "777", hash_password("pw1", 0))
     EXCEPT !.is_active = TRUE, !.password_history = EarlierPasswords(k)]

PwInit ==
  /\ users = <<PwAccount(HistoryCap)>>
  /\ now = 0
  /\ ticks = 0
  /\ nsecrets = 0
  /\ nsalts = 0
  /\ held = Some(<<[sub |-> 1, type |-> "access", exp |-> AccessTtl, signed |-> TRUE],
                   [sub |-> 1, type |-> "refresh", exp |-> RefreshTtl, signed |-> TRUE]>>)
  /\ inflight = EmptyBag
  /\ outbox = {}
  /\ rate_limit_store = NoTimestamps
  /\ clock = 0
  /\ checked = NoTimestamps
  /\ log = NoLog

PwNext ==
  \/ \E token \in HeldTokens, current \in Passwords, new \in Passwords :
       CanStart /\ ChangePasswordAuth(token, current, new)
  \/ \E email \in LoginEmails : CanStart /\ ForgotPasswordRead(email)
  \/ \E token \in IssuedSecrets, new \in Passwords :
       CanStart /\ ResetPasswordRead(token, new)
  \/ \E email \in RegEmails, phone \in Phones, password \in RegPasswords :
       CanStart /\ RegisterCheckEmail(email, phone, password)
  \/ \E r \in BagToSet(inflight) : RegisterCheckPhone(r)
  \/ \E r \in BagToSet(inflight) : RegisterInsert(r)
  \/ \E r \in BagToSet(inflight) : RegisterSetToken(r)
  \/ \E r \in BagToSet(inflight) : PasswordHistoryCheck(r)
  \/ \E r \in BagToSet(inflight) : UpdatePasswordRead(r)
  \/ \E r \in BagToSet(inflight) : UpdatePasswordWrite(r)
  \/ \E r \in BagToSet(inflight) : ForgotPasswordWrite(r)
  \/ \E r \in BagToSet(inflight) : ResetPasswordClear(r)

PwSpec == PwInit /\ [][PwNext]_vars

\* Password operations one at a time, with the clock moving between them, from
\* the account with the full history; the history keeps the latest answer.
PwSeqInit ==
  /\ users = <<PwAccount(HistoryCap)>>
  /\ now = 0
  /\ ticks = 0
  /\ nsecrets = 0
  /\ nsalts = 0
  /\ held = Some(<<[sub |-> 1, type |-> "access", exp |-> AccessTtl, signed |-> TRUE],
                   [sub |-> 1, type |-> "refresh", exp |-> RefreshTtl, signed |-> TRUE]>>)
  /\ inflight = EmptyBag
  /\ outbox = {}
  /\ rate_limit_store = NoTimestamps
  /\ clock = 0
  /\ checked = NoTimestamps
  /\ log = [ops |-> {"change_password", "forgot_password", "reset_password"},
            keep |-> 1, entries |-> <<>>]

PwSeqNext ==
  \/ \E token \in HeldTokens, current \in Passwords, new \in Passwords :
       inflight = EmptyBag /\ ChangePasswordAuth(token, current, new)
  \/ \E email \in LoginEmails : inflight = EmptyBag /\ ForgotPasswordRead(email)
  \/ \E token \in IssuedSecrets, new \in Passwords :
       inflight = EmptyBag /\ ResetPasswordRead(token, new)
  \/ \E d \in TickSteps : inflight = EmptyBag /\ Tick(d)
  \/ \E r \in BagToSet(inflight) : PasswordHistoryCheck(r)
  \/ \E r \in BagToSet(inflight) : UpdatePasswordRead(r)
  \/ \E r \in BagToSet(inflight) : UpdatePasswordWrite(r)
  \/ \E r \in BagToSet(inflight) : ForgotPasswordWrite(r)
  \/ \E r \in BagToSet(inflight) : ResetPasswordClear(r)

PwSeqSpec == PwSeqInit /\ [][PwSeqNext]_vars

\* Resets under concurrency: the account asks for a reset secret, then resets
\* that present it are in flight together; the history keeps every reset
\* answer.
ResetInit ==
  /\ users = <<PwAccount(HistoryCap)>>
  /\ now = 0
  /\ ticks = 0
  /\ nsecrets = 0
  /\ nsalts = 0
  /\ held = None
  /\ inflight = EmptyBag
  /\ outbox = {}
  /\ rate_limit_store = NoTimestamps
  /\ clock = 0
  /\ checked = NoTimestamps
  /\ log = [ops |-> {"reset_password"}, keep |-> MaxLog, entries |-> <<>>]

ResetNext ==
  \/ \E email \in LoginEmails : inflight = EmptyBag /\ ForgotPasswordRead(email)
  \/ \E r \in BagToSet(inflight) : ForgotPasswordWrite(r)
  \/ \E token \in IssuedSecrets, new \in Passwords :
       /\ CanStart
       /\ ActOpen
       /\ \A r \in BagToSet(inflight) : r.op = "reset_password"
       /\ ResetPasswordRead(token, new)
  \/ \E r \in BagToSet(inflight) : PasswordHistoryCheck(r)
  \/ \E r \in BagToSet(inflight) : UpdatePasswordRead(r)
  \/ \E r \in BagToSet(inflight) : UpdatePasswordWrite(r)
  \/ \E r \in BagToSet(inflight) : ResetPasswordClear(r)

ResetSpec == ResetInit /\ [][ResetNext]_vars

\* The login lifecycle one request at a time (register, activate, login,
\* wrong logins up to the lock, unlock), the clock, and refresh_token with the
\* tokens the client holds; the history keeps the latest refresh answer.
RefreshInit ==
  /\ users = <<>>
  /\ now = 0
  /\ ticks = 0
  /\ nsecrets = 0
  /\ nsalts = 0
  /\ held = None
  /\ inflight = EmptyBag
  /\ outbox = {}
  /\ rate_limit_store = NoTimestamps
  /\ clock = 0
  /\ checked = NoTimestamps
  /\ log = [ops |-> {"refresh_token"}, keep |-> 1, entries |-> <<>>]

RefreshNext ==
  \/ \E email \in LoginEmails, password \in Passwords :
       inflight = EmptyBag /\ LoginRead(email, password)
  \/ \E email \in RegEmails, phone \in Phones, password \in RegPasswords :
       inflight = EmptyBag /\ RegisterCheckEmail(email, phone, password)
  \/ \E token \in SecretInputs : inflight = EmptyBag /\ ActivateRead(token)
  \/ \E u \in 1..Len(users) : inflight = EmptyBag /\ Unlock(u)
  \/ \E token \in HeldTokens : inflight = EmptyBag /\ RefreshToken(token)
  \/ \E d \in TickSteps : inflight = EmptyBag /\ Tick(d)
  \/ \E r \in BagToSet(inflight) : LoginIncRead(r)
  \/ \E r \in BagToSet(inflight) : LoginIncWrite(r)
  \/ \E r \in BagToSet(inflight) : LoginReset(r)
  \/ \E r \in BagToSet(inflight) : RegisterCheckPhone(r)
  \/ \E r \in BagToSet(inflight) : RegisterInsert(r)
  \/ \E r \in BagToSet(inflight) : RegisterSetToken(r)
  \/ \E r \in BagToSet(inflight) : ActivateWrite(r)

RefreshSpec == RefreshInit /\ [][RefreshNext]_vars

\* Signed tokens over time: the account of PwSeqInit with the pair issued at
\* time 0, logins that issue new pairs later, the clock passing the access and
\* the refresh expiry, and the two kinds of operation that verify a token,
\* get_user_profile (access) and refresh_token (refresh), presented with the
\* held tokens and with copies of them whose signature does not verify; one
\* request at a time, and the history keeps the latest answer.
JwtTickSteps == {AccessTtl, AccessTtl + 1, RefreshTtl, RefreshTtl + 1}

\* the held tokens, and the same claims under a signature made without the key
PresentedTokens == HeldTokens \cup {[t EXCEPT !.signed = FALSE] : t \in HeldTokens}

JwtInit ==
  /\ users = <<PwAccount(HistoryCap)>>
  /\ now = 0
  /\ ticks = 0
  /\ nsecrets = 0
  /\ nsalts = 0
  /\ held = Some(<<[sub |-> 1, type |-> "access", exp |-> AccessTtl, signed |-> TRUE],
                   [sub |-> 1, type |-> "refresh", exp |-> RefreshTtl, signed |-> TRUE]>>)
  /\ inflight = EmptyBag
  /\ outbox = {}
  /\ rate_limit_store = NoTimestamps
  /\ clock = 0
  /\ checked = NoTimestamps
  /\ log = [ops |-> {"get_user_profile", "refresh_token"}, keep |-> 1, entries |-> <<>>]

JwtNext ==
  \/ \E email \in LoginEmails, password \in Passwords :
       inflight = EmptyBag /\ LoginRead(email, password)
  \/ \E token \in PresentedTokens : inflight = EmptyBag /\ GetUserProfile(token)
  \/ \E token \in PresentedTokens : inflight = EmptyBag /\ RefreshToken(token)
  \/ \E d \in JwtTickSteps : inflight = EmptyBag /\ Tick(d)
  \/ \E r \in BagToSet(inflight) : LoginIncRead(r)
  \/ \E r \in BagToSet(inflight) : LoginIncWrite(r)
  \/ \E r \in BagToSet(inflight) : LoginReset(r)

JwtSpec == JwtInit /\ [][JwtNext]_vars

\* Login and change_password, one request at a time, against one active account
\* whose stored hashed_password is a digest of hash_password or a value that is
\* not one; the history keeps the latest answer.
StoredDigests == {hash_password("pw1", 0), TruncatedDigest, MalformedDigest}

DigestInit ==
  /\ \E d \in StoredDigests :
       users = <<[PwAccount(0) EXCEPT !.hashed_password = d]>>
  /\ now = 0
  /\ ticks = 0
  /\ nsecrets = 0
  /\ nsalts = 0
  /\ held = Some(<<[sub |-> 1, type |-> "access", exp |-> AccessTtl, signed |-> TRUE],
                   [sub |-> 1, type |-> "refresh", exp |-> RefreshTtl, signed |-> TRUE]>>)
  /\ inflight = EmptyBag
  /\ outbox = {}
  /\ rate_limit_store = NoTimestamps
  /\ clock = 0
  /\ checked = NoTimestamps
  /\ log = [ops |-> {"login", "change_password"}, keep |-> 1, entries |-> <<>>]

DigestNext ==
  \/ \E email \in LoginEmails, password \in Passwords :
       inflight = EmptyBag /\ LoginRead(email, password)
  \/ \E token \in HeldTokens, current \in Passwords, new \in Passwords :
       inflight = EmptyBag /\ ChangePasswordAuth(token, current, new)
  \/ \E r \in BagToSet(inflight) : LoginIncRead(r)
  \/ \E r \in BagToSet(inflight) : LoginIncWrite(r)
  \/ \E r \in BagToSet(inflight) : LoginReset(r)
  \/ \E r \in BagToSet(inflight) : PasswordHistoryCheck(r)
  \/ \E r \in BagToSet(inflight) : UpdatePasswordRead(r)
  \/ \E r \in BagToSet(inflight) : UpdatePasswordWrite(r)

DigestSpec == DigestInit /\ [][DigestNext]_vars

\* Register and forgot_password under concurrency, with the background tasks
\* they add running at any later moment and ending in any way; the history
\* keeps the latest answer of the two handlers.
NotifyInit ==
  /\ users = <<>>
  /\ now = 0
  /\ ticks = 0
  /\ nsecrets = 0
  /\ nsalts = 0
  /\ held = None
  /\ inflight = EmptyBag
  /\ outbox = {}
  /\ rate_limit_store = NoTimestamps
  /\ clock = 0
  /\ checked = NoTimestamps
  /\ log = [ops |-> {"register", "forgot_password"}, keep |-> 1, entries |-> <<>>]

NotifyNext ==
  \/ \E email \in RegEmails, phone \in Phones, password \in RegPasswords :
       CanStart /\ RegisterCheckEmail(email, phone, password)
  \/ \E email \in LoginEmails : CanStart /\ ForgotPasswordRead(email)
  \/ \E r \in BagToSet(inflight) : RegisterCheckPhone(r)
  \/ \E r \in BagToSet(inflight) : RegisterInsert(r)
  \/ \E r \in BagToSet(inflight) : RegisterSetToken(r)
  \/ \E r \in BagToSet(inflight) : ForgotPasswordWrite(r)
  \/ \E task \in outbox, outcome \in SendOutcomes : SendEmail(task, outcome)

NotifySpec == NotifyInit /\ [][NotifyNext]_vars

\* Requests through cache_middleware, one at a time, against one active
\* account: logins with a wrong password or for an email without account from
\* two clients, registers with the email of the account and forgot_password
\* for an email without account from the first client, with pauses of just
\* under and of exactly the window. The history keeps the latest 429.
RECURSIVE Calls(_)
Calls(keys) ==
  IF keys = {} THEN 0
  ELSE LET key == CHOOSE k \in keys : TRUE
       IN Len(checked[key]) + Calls(keys \ {key})

\* the limiter can be called once more
CanCall == inflight = EmptyBag /\ Calls(RateKeys) < MaxCalls

RateInit ==
  /\ users = <<PwAccount(0)>>
  /\ now = 0
  /\ ticks = 0
  /\ nsecrets = 0
  /\ nsalts = 0
  /\ held = None
  /\ inflight = EmptyBag
  /\ outbox = {}
  /\ rate_limit_store = NoTimestamps
  /\ clock = 0
  /\ checked = NoTimestamps
  /\ log = [ops |-> {"cache_middleware"}, keep |-> 1, entries |-> <<>>]

RateNext ==
  \/ \E client_ip \in ClientIps, email \in LoginEmails :
       CanCall /\ LimitedLogin(client_ip, email, "pw2")
  \/ CanCall /\ LimitedRegister("10.0.0.1", <<"zed", FALSE>>, "555", "pw1")
  \/ CanCall /\ LimitedForgotPassword("10.0.0.1", <<"ann", FALSE>>)
  \/ \E s \in SleepSteps : inflight = EmptyBag /\ Sleep(s)
  \/ \E r \in BagToSet(inflight) : LoginIncRead(r)
  \/ \E r \in BagToSet(inflight) : LoginIncWrite(r)

RateSpec == RateInit /\ [][RateNext]_vars

(* ============================ properties ============================== *)
Accounts == 1..Len(users)
Min(a, b) == IF a < b THEN a ELSE b

\* the history of one account: the answered logins that found it, and its unlocks
AccountLog(u) == SelectSeq(log.entries, LAMBDA e : e.uid = u)

\* a login answered after the password check failed on the document it read
WrongLogin(e) == e.op = "login" /\ e.check = "wrong"

\* the two answers by which login reports a locked account
LockedDetails == {AccountIsLockedDetail, AccountLockedNowDetail}
AccountLocked(reply) ==
  /\ reply.status = HTTP_403_FORBIDDEN
  /\ reply.detail \in LockedDetails
  /\ reply.tokens = None

\* C1: a burst of N wrong-password logins on a fresh account, once all are
\* answered, leaves failed_login_attempts = min(N, 3) and is_locked = (N >= 3).
C1_BurstCountsEveryFailure ==
  inflight = EmptyBag =>
    LET N == Len(log.entries)
    IN /\ users[1].failed_login_attempts = Min(N, LockThreshold)
       /\ users[1].is_locked = (N >= LockThreshold)

\* C2: three wrong-password logins in a row, the first on a counter of 0, lock
\* the account; the third is answered "account locked", and so is every later
\* login for the account until an unlock, whatever its password, without tokens.
C2_ThreeWrongLoginsLock ==
  \A u \in Accounts :
    LET A == AccountLog(u)
    IN \A i \in 1..Len(A) :
         (/\ i + 2 <= Len(A)
          /\ \A k \in 0..2 : WrongLogin(A[i + k])
          /\ A[i].before[1].failed_login_attempts = 0)
         => /\ A[i + 2].after[1].is_locked
            /\ AccountLocked(A[i + 2].reply)
            /\ \A j \in (i + 3)..Len(A) :
                 (\A m \in (i + 3)..j : A[m].op = "login")
                 => /\ AccountLocked(A[j].reply)
                    /\ A[j].after[1].is_locked
                    /\ (j = Len(A) /\ inflight = EmptyBag => users[u].is_locked)

\* three wrong logins locked the account and a login with the right password
\* was then refused
C2_Witness ==
  \E u \in Accounts :
    LET A == AccountLog(u)
    IN /\ Len(A) >= 4
       /\ \A k \in 1..3 : WrongLogin(A[k])
       /\ A[1].before[1].failed_login_attempts = 0
       /\ A[4].op = "login"
       /\ verify_password(A[4].password, A[4].user[1].hashed_password)
       /\ AccountLocked(A[4].reply)

\* C3: in every reachable state an account whose failed_login_attempts is 3 or
\* more is locked.
C3_ThresholdImpliesLocked ==
  \A u \in Accounts :
    users[u].failed_login_attempts >= LockThreshold => users[u].is_locked

C3_Witness ==
  \E u \in Accounts : users[u].failed_login_attempts >= LockThreshold

\* C4: in every state reachable by interleaved requests a locked account has
\* failed_login_attempts of 3 or more.
C4_LockedImpliesThreshold ==
  \A u \in Accounts :
    users[u].is_locked => users[u].failed_login_attempts >= LockThreshold

\* C5: no step of register, activate, login, refresh, change/forgot/reset
\* password unlocks a locked account; only the unlock does.
C5_LockedStaysLocked ==
  [][\A u \in Accounts :
       (users[u].is_locked /\ ~Unlock(u)) => users'[u].is_locked]_vars

\* a locked account whose password was replaced while it stayed locked
C5_Witness ==
  \E u \in Accounts :
    users[u].is_locked /\ Len(users[u].password_history) > 0

\* C6: an unlock leaves is_locked false and failed_login_attempts 0 in the one
\* update it makes, and the k-th wrong login in a row after it leaves the
\* counter at k, locking the account at the third and not before.
C6_UnlockStartsNewCycle ==
  \A u \in Accounts :
    LET A == AccountLog(u)
    IN \A i \in 1..Len(A) :
         A[i].op = "unlock" =>
           /\ ~A[i].after[1].is_locked
           /\ A[i].after[1].failed_login_attempts = 0
           /\ \A k \in 1..LockThreshold :
                (i + k <= Len(A) /\ \A m \in 1..k : WrongLogin(A[i + m]))
                => /\ A[i + k].after[1].failed_login_attempts = k
                   /\ A[i + k].after[1].is_locked = (k >= LockThreshold)
                   /\ AccountLocked(A[i + k].reply) = (k >= LockThreshold)

\* three wrong logins locked the account, it was unlocked, and the next wrong
\* login counted as the first of a new cycle
C6_Witness ==
  \E u \in Accounts :
    LET A == AccountLog(u)
    IN \E i \in 1..Len(A) :
         /\ A[i].op = "unlock"
         /\ A[i].before[1].is_locked
         /\ A[i].before[1].failed_login_attempts = LockThreshold
         /\ i + 1 <= Len(A)
         /\ WrongLogin(A[i + 1])
         /\ A[i + 1].reply.remaining = AttemptsAllowed - 1

\* C7: a login that succeeds leaves failed_login_attempts 0; a login locks the
\* account only as the third wrong-password login in a row; after a success k
\* wrong logins in a row (k < 3) leave the counter at k and the account unlocked.
C7_SuccessResetsCounter ==
  \A u \in Accounts :
    LET A == AccountLog(u)
    IN \A i \in 1..Len(A) :
         /\ (A[i].op = "login" /\ A[i].check = "ok") =>
              /\ A[i].after[1].failed_login_attempts = 0
              /\ A[i].reply.status = HTTP_200_OK
              /\ \A k \in 1..(LockThreshold - 1) :
                   (i + k <= Len(A) /\ \A m \in 1..k : WrongLogin(A[i + m]))
                   => /\ A[i + k].after[1].failed_login_attempts = k
                      /\ ~A[i + k].after[1].is_locked
         /\ (A[i].op = "login" /\ ~A[i].before[1].is_locked /\ A[i].after[1].is_locked) =>
              /\ i >= LockThreshold
              /\ \A m \in 0..(LockThreshold - 1) : WrongLogin(A[i - m])

\* wrong, wrong, correct, wrong, wrong: the account is unlocked, its counter 2
C7_Witness ==
  \E u \in Accounts :
    LET A == AccountLog(u)
    IN /\ Len(A) = 5
       /\ \A i \in {1, 2, 4, 5} : WrongLogin(A[i])
       /\ A[3].op = "login" /\ A[3].check = "ok"
       /\ inflight = EmptyBag
       /\ ~users[u].is_locked
       /\ users[u].failed_login_attempts = 2

\* C8: login checks, in this order, that the account exists, that it is not
\* locked, that it is active, that the password verifies, and answers by the
\* first check that fails: a locked and inactive account gets "account locked".
C8_LoginCheckOrder ==
  \A i \in 1..Len(log.entries) :
    LET e == log.entries[i]
    IN e.op = "login" =>
         IF e.user = None
           THEN e.reply = Reply(HTTP_401_UNAUTHORIZED, InvalidCredentialsDetail)
         ELSE IF e.user[1].is_locked
           THEN e.reply = Reply(HTTP_403_FORBIDDEN, AccountIsLockedDetail)
         ELSE IF ~e.user[1].is_active
           THEN e.reply = Reply(HTTP_403_FORBIDDEN, NotActivatedDetail)
         ELSE IF ~verify_password(e.password, e.user[1].hashed_password)
           THEN e.reply = login_failed_reply(e.after[1].failed_login_attempts)
         ELSE e.reply.status = HTTP_200_OK /\ e.reply.tokens # None

\* a login with the right password for a locked, never activated account
C8_Witness ==
  \E i \in 1..Len(log.entries) :
    LET e == log.entries[i]
    IN /\ e.op = "login"
       /\ e.user # None
       /\ e.user[1].is_locked
       /\ ~e.user[1].is_active
       /\ verify_password(e.password, e.user[1].hashed_password)
       /\ AccountLocked(e.reply)

\* C9: login issues tokens only in the step of a login request whose document
\* existed, was unlocked and active and carried a digest its password verifies
\* against; the account it names is active.
C9_TokensOnlyAfterAllChecks ==
  [][
      /\ \A r \in BagToSet(inflight) :
           LoginReset(r) =>
             /\ r.op = "login"
             /\ r.user # None
             /\ ~r.user[1].is_locked
             /\ r.user[1].is_active
             /\ verify_password(r.password, r.user[1].hashed_password)
             /\ users[r.uid].is_active
      /\ (held' # held) => \E r \in BagToSet(inflight) : LoginReset(r)
    ]_vars

C9_Witness ==
  /\ held # None
  /\ \E u \in Accounts : held[1][1].sub = u /\ users[u].is_active

\* C10: in every reachable state a locked account is active, and so is every
\* account with a non-zero failed_login_attempts.
C10_LockedImpliesActive ==
  \A u \in Accounts :
    (users[u].is_locked \/ users[u].failed_login_attempts > 0) => users[u].is_active

C10_Witness ==
  \E u \in Accounts : users[u].is_locked /\ users[u].is_active

\* the answered requests of one handler, in the order of their answers
Answered(op) == SelectSeq(log.entries, LAMBDA e : e.op = op)

\* C11: the account a successful register leaves is inactive, unlocked, has a
\* failure counter of 0 and an empty password_history, and stores an activation
\* secret whose expiry is the time of the registration plus 24 hours.
C11_RegisteredAccount ==
  \A i \in 1..Len(log.entries) :
    LET e == log.entries[i]
    IN (e.op = "register" /\ e.reply.status = HTTP_201_CREATED) =>
         /\ e.after # None
         /\ ~e.after[1].is_active
         /\ ~e.after[1].is_locked
         /\ e.after[1].failed_login_attempts = 0
         /\ e.after[1].password_history = <<>>
         /\ e.after[1].activation_token # None
         /\ e.after[1].activation_token_expires = Some(e.at + ActivationHours * 60)

\* a registration answered after the clock has moved
C11_Witness ==
  \E i \in 1..Len(log.entries) :
    LET e == log.entries[i]
    IN /\ e.op = "register"
       /\ e.reply.status = HTTP_201_CREATED
       /\ e.at > 0

\* the latest answer the history keeps
LastAnswer == log.entries[Len(log.entries)]

DuplicateEmail == Reply(HTTP_400_BAD_REQUEST, "Email already registered")
DuplicatePhone == Reply(HTTP_400_BAD_REQUEST, "Phone number already registered")

\* C12: in every state, also while registrations race past the pre-checks, no
\* two accounts have the same email in lower case and no two the same phone
\* number.
C12_UniqueEmailAndPhone ==
  \A i, j \in Accounts :
    i # j => /\ lower(users[i].email) # lower(users[j].email)
             /\ users[i].phone_number # users[j].phone_number

\* an account exists and a registration that passed both pre-checks was
\* refused by the unique index
C12_Witness ==
  /\ Len(users) >= 1
  /\ log.entries # <<>>
  /\ LastAnswer.reply.status = HTTP_500_INTERNAL_SERVER_ERROR

\* C13: a register whose email, compared without regard to case, or whose phone
\* number an account already has when the handler looks it up is answered
\* "Email already registered" / "Phone number already registered", and the
\* step creates no account and changes none.
C13_DuplicateRejected ==
  [][
      /\ \A email \in RaceEmails, phone \in RacePhones, password \in RegPasswords :
           (/\ RegisterCheckEmail(email, phone, password)
            /\ \E u \in Accounts : users[u].email[1] = email[1])
           => /\ users' = users
              /\ inflight' = inflight
              /\ log'.entries # <<>>
              /\ log'.entries[Len(log'.entries)].reply = DuplicateEmail
      /\ \A r \in BagToSet(inflight) :
           (/\ RegisterCheckPhone(r)
            /\ \E u \in Accounts : users[u].phone_number = r.phone)
           => /\ users' = users
              /\ inflight' = inflight (-) SetToBag({r})
              /\ log'.entries # <<>>
              /\ log'.entries[Len(log'.entries)].reply = DuplicatePhone
    ]_vars

\* a register with the email of an account in another case was refused
C13_Witness ==
  /\ log.entries # <<>>
  /\ LastAnswer.op = "register"
  /\ LastAnswer.reply = DuplicateEmail
  /\ \E u \in Accounts :
       users[u].email # LastAnswer.email /\ users[u].email = lower(LastAnswer.email)

\* C14: every register is answered with success or with a typed duplicate
\* result, also the one that loses a race past the pre-checks against another
\* register for the same email, and the loser stores nothing.
C14_RaceLoserTyped ==
  \A i \in 1..Len(log.entries) :
    LET e == log.entries[i]
    IN e.op = "register" =>
         \/ e.reply.status = HTTP_201_CREATED
         \/ e.reply \in {DuplicateEmail, DuplicatePhone} /\ e.after = None

ActivationRefused == Reply(HTTP_400_BAD_REQUEST, "Invalid or expired activation token")
ActivationDone ==
  Reply(HTTP_200_OK, "Account activated successfully. You can now log in.")

\* the activation with secret token was answered with success
ActivatedWith(token) ==
  \E i \in 1..Len(log.entries) :
    /\ log.entries[i].op = "activate"
    /\ log.entries[i].token = Some(token)
    /\ log.entries[i].reply = ActivationDone

\* C15: the write of an activation answers success and leaves the account
\* active with no activation token and no expiry; an activation that arrives
\* with a secret after an activation with that secret was answered with success
\* is refused as invalid or expired and changes nothing.
C15_SecondActivationFails ==
  [][
      /\ \A r \in BagToSet(inflight) :
           ActivateWrite(r)
           => /\ users'[r.uid].is_active
              /\ users'[r.uid].activation_token = None
              /\ users'[r.uid].activation_token_expires = None
              /\ log'.entries[Len(log'.entries)].reply = ActivationDone
      /\ \A token \in PresentedSecrets :
           (ActivateRead(token) /\ ActivatedWith(token))
           => /\ users' = users
              /\ inflight' = inflight
              /\ log'.entries[Len(log'.entries)].reply = ActivationRefused
    ]_vars

\* two activations with one secret, the second arrived after the answer of the
\* first: the first activated the account, the second was refused
C15_Witness ==
  \E i, j \in 1..Len(log.entries) :
    /\ i < j
    /\ log.entries[i].op = "activate"
    /\ log.entries[j].op = "activate"
    /\ log.entries[i].token = log.entries[j].token
    /\ log.entries[j].started >= i
    /\ log.entries[i].reply = ActivationDone
    /\ log.entries[i].after # None
    /\ log.entries[i].after[1].is_active
    /\ log.entries[j].reply = ActivationRefused

\* C16: of the activations that present one valid secret, however many are in
\* flight together, at most one is answered with success.
C16_OneActivationWins ==
  \A i, j \in 1..Len(log.entries) :
    (/\ i < j
     /\ log.entries[i].op = "activate"
     /\ log.entries[j].op = "activate"
     /\ log.entries[i].token = log.entries[j].token
     /\ log.entries[i].reply = ActivationDone)
    => log.entries[j].reply = ActivationRefused

\* C17: an activation goes past its lookup only if an account stores exactly
\* the presented string as its activation token and the stored expiry is
\* present and strictly later than the time of the check.
C17_ActivationAccepts ==
  [][
      \A token \in PresentedSecrets :
        (ActivateRead(token) /\ inflight' # inflight)
        => \E u \in Accounts :
             /\ users[u].activation_token = Some(token)
             /\ users[u].activation_token_expires # None
             /\ users[u].activation_token_expires[1] > now
    ]_vars

\* the two ways the lookup is wider than C17, each on its own
C17_ExactString ==
  [][
      \A token \in PresentedSecrets :
        (ActivateRead(token) /\ inflight' # inflight)
        => \E u \in Accounts : users[u].activation_token = Some(token)
    ]_vars

C17_StrictlyLater ==
  [][
      \A token \in PresentedSecrets :
        (ActivateRead(token) /\ inflight' # inflight)
        => \E u \in Accounts :
             /\ users[u].activation_token = Some(strip(token))
             /\ users[u].activation_token_expires # None
             /\ users[u].activation_token_expires[1] > now
    ]_vars

ResetRefused == Reply(HTTP_400_BAD_REQUEST, "Invalid or expired reset token")

\* an account stores exactly token as its reset secret, with an expiry strictly
\* later than now
ResetSecretValid(token) ==
  \E u \in Accounts :
    /\ users[u].reset_password_token = Some(token)
    /\ users[u].reset_password_token_expires # None
    /\ users[u].reset_password_token_expires[1] > now

\* C18: a reset goes past its lookup only if an account stores exactly the
\* presented string as reset_password_token with an expiry strictly later than
\* the time of the query; when no account does, the reset is refused as invalid
\* or expired and no field of any account changes.
C18_ResetLookup ==
  [][
      \A token \in PresentedSecrets, new_password \in Passwords :
        ResetPasswordRead(token, new_password)
        => /\ (inflight' # inflight) => ResetSecretValid(token)
           /\ ~ResetSecretValid(token)
              => /\ users' = users
                 /\ inflight' = inflight
                 /\ log'.entries[Len(log'.entries)].reply = ResetRefused
    ]_vars

\* a reset that presented the stored secret at exactly its expiry instant was
\* refused
C18_Witness ==
  /\ log.entries # <<>>
  /\ LastAnswer.op = "reset_password"
  /\ LastAnswer.reply = ResetRefused
  /\ \E u \in Accounts :
       /\ users[u].reset_password_token = LastAnswer.token
       /\ users[u].reset_password_token_expires = Some(LastAnswer.at)

\* a reset that presented the stored secret padded with whitespace, before the
\* expiry, was refused
C18_PaddedRefused ==
  /\ log.entries # <<>>
  /\ LastAnswer.op = "reset_password"
  /\ LastAnswer.reply = ResetRefused
  /\ \E u \in Accounts :
       /\ users[u].reset_password_token = Some(strip(LastAnswer.token[1]))
       /\ users[u].reset_password_token # LastAnswer.token
       /\ users[u].reset_password_token_expires[1] > LastAnswer.at

\* password is the plaintext of a digest in the stored history of account u
InHistory(u, password) ==
  \E i \in 1..Len(users[u].password_history) :
    verify_password(password, users[u].password_history[i].hashed_password)

\* C19: a change or a reset whose new password is the plaintext of a digest in
\* password_history when the handler checks the history ends there, refused
\* with PasswordReused, and the password and the history stay as they were.
C19_ReuseRefused ==
  [][
      \A r \in BagToSet(inflight) :
        (PasswordHistoryCheck(r) /\ InHistory(r.uid, r.password))
        => /\ users' = users
           /\ inflight' = inflight (-) SetToBag({r})
    ]_vars

\* C20: in every state, whatever registrations, changes and resets ran or are
\* running, the password_history of every account has at most 3 entries.
C20_HistoryCapped ==
  \A u \in Accounts : Len(users[u].password_history) <= HistoryCap

\* the account whose history was full took a further password: the history
\* holds a digest that was the current one in this run, and still 3 entries,
\* while a registered account has a shorter history
C20_Witness ==
  /\ Len(users) >= 2
  /\ Len(users[1].password_history) = HistoryCap
  /\ users[1].password_history[HistoryCap].hashed_password[2] >= 0
  /\ Len(users[2].password_history) < HistoryCap

\* C21: the write of a password update, with requests run one after another,
\* sets hashed_password to the new digest and leaves a history whose newest
\* entry is the digest that was current before the write, whose other entries
\* are the entries of the old history in their order, and from which the
\* oldest entry is dropped if that makes four.
C21_ArchivesCurrent ==
  [][
      \A r \in BagToSet(inflight) :
        UpdatePasswordWrite(r)
        => LET old == users[r.uid]
               new == users'[r.uid]
               n == Len(new.password_history)
               dropped == Len(old.password_history) + 1 - n
           IN /\ new.hashed_password = r.new_hashed_password[1]
              /\ n = Min(Len(old.password_history) + 1, HistoryCap)
              /\ new.password_history[n].hashed_password = old.hashed_password
              /\ new.password_history[n].changed_at = now
              /\ \A i \in 1..(n - 1) :
                   new.password_history[i] = old.password_history[i + dropped]
    ]_vars

\* the account whose history was full took a new password: the oldest entry
\* is gone, the two newer ones moved up and the digest that was current is
\* the newest entry
C21_Witness ==
  /\ users[1].hashed_password[2] >= 1
  /\ users[1].password_history =
       <<EarlierPasswords(HistoryCap)[2], EarlierPasswords(HistoryCap)[3],
         [hashed_password |-> hash_password("pw1", 0),
          changed_at |-> users[1].password_history[HistoryCap].changed_at]>>

RECURSIVE SerialUpdates(_, _)
\* the password and history that update_password leaves when the updates to
\* the digests are applied to view one after another, in every order
SerialUpdates(view, digests) ==
  IF digests = {} THEN {view}
  ELSE UNION {SerialUpdates(update_password_data(view, d), digests \ {d}) : d \in digests}

\* C22: when the password updates that ran on the account, together or not,
\* are all answered, its password and history are those of applying the
\* updates in some serial order: every digest that was the current one is the
\* final one or archived, up to the cap.
C22_UpdatesSerializable ==
  (inflight = EmptyBag /\ Len(users) = 1)
  => \E password \in [1..nsalts -> Passwords] :
       PasswordView(users[1]) \in
         SerialUpdates(PasswordView(PwAccount(HistoryCap)),
                       {hash_password(password[salt], salt) : salt \in 1..nsalts})

\* C23: every forgot_password is answered with status 200 and the message "If
\* the email exists, a password reset link has been sent.", whether its email
\* has an account or not: the answers are equal.
C23_ForgotSameAnswer ==
  [][
      (/\ log'.entries # <<>>
       /\ log'.entries # log.entries
       /\ log'.entries[Len(log'.entries)].op = "forgot_password")
      => /\ log'.entries[Len(log'.entries)].reply =
              Reply(HTTP_200_OK, "If the email exists, a password reset link has been sent.")
         /\ \A i \in 1..Len(log.entries) :
              log.entries[i].op = "forgot_password"
              => log.entries[i].reply = log'.entries[Len(log'.entries)].reply
    ]_vars

\* a forgot_password for an email without an account was answered after one
\* for the email of the account was: the account stores a reset secret
C23_Witness ==
  /\ log.entries # <<>>
  /\ LastAnswer.op = "forgot_password"
  /\ LastAnswer.uid = 0
  /\ \A u \in Accounts : users[u].email # lower(LastAnswer.email)
  /\ \E u \in Accounts : users[u].reset_password_token # None

\* what every step of a reset lookup does: it draws a salt for the new
\* password, or it records the answer of a reset
ResetLookupStep ==
  \/ nsalts' # nsalts
  \/ /\ log' # log
     /\ log'.entries # <<>>
     /\ log'.entries[Len(log'.entries)].op = "reset_password"

\* C24: the write of a forgot_password stores its secret as the
\* reset_password_token of the account, with expiry the issue time plus 1
\* hour, in place of the one stored before; a reset that presents a secret
\* other than the stored one is refused as invalid or expired and one that
\* presents the stored one before its expiry goes on; a forgot_password for an
\* email without an account changes nothing.
C24_ResetSecretSingleValued ==
  [][
      /\ \A r \in BagToSet(inflight) :
           ForgotPasswordWrite(r)
           => /\ users'[r.uid].reset_password_token = r.token
              /\ users'[r.uid].reset_password_token_expires = Some(now + ResetHours * 60)
      /\ \A token \in PresentedSecrets, new_password \in Passwords :
           (ResetLookupStep /\ ResetPasswordRead(token, new_password))
           => IF \E u \in Accounts :
                   /\ users[u].reset_password_token = Some(token)
                   /\ users[u].reset_password_token_expires[1] > now
              THEN inflight' # inflight
              ELSE /\ users' = users
                   /\ log'.entries[Len(log'.entries)].reply = ResetRefused
      /\ \A email \in LoginEmails :
           ((\A u \in Accounts : users[u].email # lower(email)) /\ ForgotPasswordRead(email))
           => UNCHANGED <<users, nsecrets, inflight>>
    ]_vars

\* after two forgot_password for the account, a reset with the first secret
\* was refused while the second secret is stored and not expired
C24_Witness ==
  /\ log.entries # <<>>
  /\ LastAnswer.op = "reset_password"
  /\ LastAnswer.reply = ResetRefused
  /\ LastAnswer.token = Some(<<1, FALSE>>)
  /\ \E u \in Accounts :
       /\ users[u].reset_password_token = Some(<<2, FALSE>>)
       /\ users[u].reset_password_token_expires[1] > LastAnswer.at

ResetDone == Reply(HTTP_200_OK, "Password reset successfully")

\* C25: the last write of a successful reset leaves the account with no
\* reset_password_token and no expiry; a reset that arrives next with the
\* secret of that reset is refused as invalid or expired and changes nothing,
\* the password included.
C25_SecondResetFails ==
  [][
      /\ \A r \in BagToSet(inflight) :
           ResetPasswordClear(r)
           => /\ users'[r.uid].reset_password_token = None
              /\ users'[r.uid].reset_password_token_expires = None
              /\ users'[r.uid].hashed_password = users[r.uid].hashed_password
              /\ log'.entries[Len(log'.entries)].reply = ResetDone
      /\ \A token \in PresentedSecrets, new_password \in Passwords :
           (/\ log.entries # <<>>
            /\ LastAnswer.op = "reset_password"
            /\ LastAnswer.reply = ResetDone
            /\ LastAnswer.token = Some(token)
            /\ ResetPasswordRead(token, new_password))
           => /\ users' = users
              /\ inflight' = inflight
              /\ log'.entries[Len(log'.entries)].reply = ResetRefused
    ]_vars

\* the one secret issued was consumed by a reset, and a reset that presented
\* it again, before the hour had passed, was refused
C25_Witness ==
  /\ nsecrets = 1
  /\ ticks = 0
  /\ inflight = EmptyBag
  /\ users[1].reset_password_token = None
  /\ users[1].hashed_password[2] >= 1
  /\ log.entries # <<>>
  /\ LastAnswer.op = "reset_password"
  /\ LastAnswer.reply = ResetRefused
  /\ LastAnswer.token = Some(<<1, FALSE>>)

\* C26: of the resets that present one valid secret, however many are in
\* flight together, at most one changes the password and is answered with
\* success.
C26_OneResetWins ==
  \A i, j \in 1..Len(log.entries) :
    (/\ i < j
     /\ log.entries[i].op = "reset_password"
     /\ log.entries[j].op = "reset_password"
     /\ log.entries[i].token = log.entries[j].token)
    => ~(log.entries[i].reply = ResetDone /\ log.entries[j].reply = ResetDone)

\* the refresh_token with token was answered in this step
RefreshAnswered(token) ==
  /\ RefreshToken(token)
  /\ log'.entries # <<>>
  /\ log'.entries[Len(log'.entries)].op = "refresh_token"

\* C27: a refresh_token with a valid, unexpired refresh token whose subject is
\* an account that is active and not locked is answered with success, a new
\* access token for the subject and the presented refresh token, and changes
\* no account.
C27_RefreshSucceeds ==
  [][
      \A token \in HeldTokens :
        (/\ RefreshAnswered(token)
         /\ token.type = "refresh"
         /\ token.exp >= now
         /\ is_valid(token.sub)
         /\ users[token.sub].is_active
         /\ ~users[token.sub].is_locked)
        => /\ users' = users
           /\ log'.entries[Len(log'.entries)].reply.status = HTTP_200_OK
           /\ log'.entries[Len(log'.entries)].reply.tokens =
                Some(<<create_access_token(token.sub), token>>)
    ]_vars

\* C28: a refresh_token with a valid refresh token whose subject is missing,
\* not activated or locked is answered "User not found", "Account not
\* activated" or "Account is locked", and with no access token.
C28_RefreshRefusesTyped ==
  [][
      \A token \in HeldTokens :
        (/\ RefreshAnswered(token)
         /\ token.type = "refresh"
         /\ token.exp >= now)
        => LET reply == log'.entries[Len(log'.entries)].reply
           IN /\ ~is_valid(token.sub)
                 => reply = Reply(HTTP_401_UNAUTHORIZED, "User not found")
              /\ (is_valid(token.sub) /\ ~users[token.sub].is_active)
                 => reply = Reply(HTTP_403_FORBIDDEN, "Account not activated")
              /\ (is_valid(token.sub) /\ users[token.sub].is_active
                                      /\ users[token.sub].is_locked)
                 => reply = Reply(HTTP_403_FORBIDDEN, "Account is locked")
    ]_vars

\* the part of C28 that is about the access token only: no refresh_token
\* answer for a missing, inactive or locked account carries tokens
C28_NoTokenWhileLocked ==
  [][
      \A token \in HeldTokens :
        (/\ RefreshAnswered(token)
         /\ \/ ~is_valid(token.sub)
            \/ ~users[token.sub].is_active
            \/ users[token.sub].is_locked)
        => log'.entries[Len(log'.entries)].reply.tokens = None
    ]_vars

\* a refresh token issued before the lockout was presented while the account
\* is locked
C28_LockedRefresh ==
  /\ log.entries # <<>>
  /\ LastAnswer.op = "refresh_token"
  /\ LastAnswer.token[1].type = "refresh"
  /\ is_valid(LastAnswer.uid)
  /\ users[LastAnswer.uid].is_locked

\* the subject ids of the accounts, and one that no account has
SubjectIds == 1..(Len(users) + 1)

\* verify_token of token as its own type gives its claims, as the other type
\* the invalid result
OwnTypeOnly(token, own, other) ==
  /\ token.exp >= now => /\ verify_token(token, own) # None
                         /\ verify_token(token, own)[1].sub = token.sub
  /\ verify_token(token, other) = None

\* C29: for every subject id, an access token verifies as access with that
\* subject and is invalid as refresh, and a refresh token verifies as refresh
\* with that subject and is invalid as access, when issued and as long as
\* held; get_current_user refuses a refresh token and refresh_token refuses an
\* access token.
C29_TypeDiscrimination ==
  /\ [](/\ \A id \in SubjectIds :
             /\ OwnTypeOnly(create_access_token(id), "access", "refresh")
             /\ verify_token(create_access_token(id), "access")[1].sub = id
             /\ OwnTypeOnly(create_refresh_token(id), "refresh", "access")
             /\ verify_token(create_refresh_token(id), "refresh")[1].sub = id
        /\ held # None => /\ OwnTypeOnly(held[1][1], "access", "refresh")
                          /\ OwnTypeOnly(held[1][2], "refresh", "access"))
  /\ [][
         \A token \in HeldTokens :
           /\ (GetUserProfile(token) /\ token.type = "refresh")
              => log'.entries[Len(log'.entries)].reply =
                   Reply(HTTP_401_UNAUTHORIZED, "Invalid authentication credentials")
           /\ (RefreshToken(token) /\ token.type = "access")
              => log'.entries[Len(log'.entries)].reply =
                   Reply(HTTP_401_UNAUTHORIZED, "Invalid or expired refresh token")
       ]_vars

\* a refresh token, not expired, was presented to get_user_profile and refused
C29_Witness ==
  /\ log.entries # <<>>
  /\ LastAnswer.op = "get_user_profile"
  /\ LastAnswer.token[1].type = "refresh"
  /\ LastAnswer.token[1].signed
  /\ LastAnswer.token[1].exp > LastAnswer.at
  /\ LastAnswer.reply = Reply(HTTP_401_UNAUTHORIZED, "Invalid authentication credentials")

TokenTypes == {"access", "refresh"}

\* C30: an access token expires 30 minutes and a refresh token 7 days after
\* it is issued; verify_token of a token whose expiry has passed, or whose
\* signature does not verify, is the invalid result for either type, and the
\* operations that verify such a token answer with their 401, not with an
\* unhandled error.
C30_ExpiredOrForgedInvalid ==
  /\ [](/\ \A id \in SubjectIds :
             /\ create_access_token(id).exp = now + AccessMinutes
             /\ create_refresh_token(id).exp = now + RefreshDays * 24 * 60
        /\ \A token \in PresentedTokens, type \in TokenTypes :
             (token.exp < now \/ ~token.signed) => verify_token(token, type) = None)
  /\ [][
         \A token \in PresentedTokens :
           (token.exp < now \/ ~token.signed)
           => /\ GetUserProfile(token)
                 => log'.entries[Len(log'.entries)].reply =
                      Reply(HTTP_401_UNAUTHORIZED, "Invalid authentication credentials")
              /\ RefreshToken(token)
                 => log'.entries[Len(log'.entries)].reply =
                      Reply(HTTP_401_UNAUTHORIZED, "Invalid or expired refresh token")
       ]_vars

\* a refresh token with a good signature was presented to refresh_token after
\* its 7 days and was refused with the 401
C30_Witness ==
  /\ log.entries # <<>>
  /\ LastAnswer.op = "refresh_token"
  /\ LastAnswer.token[1].type = "refresh"
  /\ LastAnswer.token[1].signed
  /\ LastAnswer.token[1].exp < LastAnswer.at
  /\ LastAnswer.reply = Reply(HTTP_401_UNAUTHORIZED, "Invalid or expired refresh token")

\* an access token with a signature that does not verify was refused
C30_ForgedRefused ==
  /\ log.entries # <<>>
  /\ LastAnswer.op = "get_user_profile"
  /\ LastAnswer.token[1].type = "access"
  /\ ~LastAnswer.token[1].signed
  /\ LastAnswer.token[1].exp > LastAnswer.at
  /\ LastAnswer.reply = Reply(HTTP_401_UNAUTHORIZED, "Invalid authentication credentials")

(* ------------------------------- C31 ---------------------------------- *)
\* the latest answer is one of login or change_password that went as far as
\* verify_password, against an account whose stored digest is digest
VerifiedAgainst(e) ==
  /\ e.before # None
  /\ \/ e.op = "login" /\ e.check \notin {"unknown", "locked", "inactive"}
     \/ e.op = "change_password" /\ e.check = "ok"

\* C31: verify_password(plaintext, digest) is false and raises nothing when the
\* stored digest is malformed, so a login against an account whose stored
\* hashed_password is malformed answers with its credential error (401
\* "Invalid email or password...", or the 403 of the lock it causes) and a
\* change_password answers 400 "Current password is incorrect"; none answers
\* with an unhandled failure.
C31_MalformedDigestTypedError ==
  [][\A i \in 1..Len(log'.entries) :
       LET e == log'.entries[i]
       IN (log' # log /\ VerifiedAgainst(e)
           /\ e.before[1].hashed_password \in {MalformedDigest, TruncatedDigest})
          => /\ ~verify_password(e.password, e.before[1].hashed_password)
             /\ e.op = "login" =>
                  /\ e.reply.status \in {HTTP_401_UNAUTHORIZED, HTTP_403_FORBIDDEN}
                  /\ e.reply.detail \in {AttemptsRemainingDetail, AccountLockedNowDetail}
             /\ e.op = "change_password" =>
                  /\ e.reply.status = HTTP_400_BAD_REQUEST
                  /\ e.reply.detail = CurrentPasswordIncorrectDetail]_vars

\* the part of C31 that the code keeps: against a digest with a parsable salt
\* and a cut-off hash, verify_password is false and the typed error is answered
C31_TruncatedDigestTypedError ==
  [][\A i \in 1..Len(log'.entries) :
       LET e == log'.entries[i]
       IN (log' # log /\ VerifiedAgainst(e)
           /\ e.before[1].hashed_password = TruncatedDigest)
          => /\ e.op = "login" =>
                  e.reply.detail \in {AttemptsRemainingDetail, AccountLockedNowDetail}
             /\ e.op = "change_password" =>
                  e.reply.detail = CurrentPasswordIncorrectDetail]_vars

(* ------------------------------- C32 ---------------------------------- *)
\* the tasks added by this step
AddedTasks == {task \in outbox' \ outbox : task.state = "added"}

\* this step answers a register or a forgot_password that wrote its secret
AnswersWithSecret ==
  /\ log' # log
  /\ Len(log'.entries) > 0
  /\ LastAnswer'.op \in {"register", "forgot_password"}
  /\ LastAnswer'.before # LastAnswer'.after

\* C32: register and forgot_password answer in the very step that adds the
\* notification task, while the task has not run (the request only schedules
\* it), with the fixed answer of the handler; and the later run of the task,
\* whether the send succeeds, is refused or raises, changes neither an account
\* nor an answer already given.
C32_NotifierOutcomeIrrelevant ==
  [][/\ AnswersWithSecret =>
          /\ \E task \in AddedTasks : Some(task.token) = LastAnswer'.token
          /\ LastAnswer'.reply =
               IF LastAnswer'.op = "register" THEN register_reply
               ELSE forgot_password_reply
     /\ (AddedTasks # {}) => AnswersWithSecret
     /\ \A task \in outbox, outcome \in SendOutcomes :
          SendEmail(task, outcome) => UNCHANGED <<users, log, inflight>>]_vars

\* a registration was answered 201 and a forgot_password 200; the send of the
\* activation email raised and the send of the reset email was refused, and the
\* account still holds both secrets
C32_Witness ==
  /\ \E t1 \in outbox, t2 \in outbox, u \in Accounts :
       /\ t1.send = "send_activation_email" /\ t1.state = "exception"
       /\ t2.send = "send_password_reset_email" /\ t2.state = "refused"
       /\ users[u].activation_token = Some(t1.token)
       /\ users[u].reset_password_token = Some(t2.token)
  /\ Len(log.entries) > 0
  /\ LastAnswer.reply = forgot_password_reply

(* ------------------------------- C33 ---------------------------------- *)
\* the status that goes with the error a detail names: conflict (409) for the
\* duplicates, unauthorized for invalid credentials and invalid or expired
\* tokens, forbidden for locked and not activated, bad request for a reused
\* password, not found (404) for a missing account; 0 for any other answer
StatusClassOf(detail) ==
  CASE detail \in {DuplicateEmail.detail, DuplicatePhone.detail} -> 409
    [] detail \in {InvalidCredentialsDetail, AttemptsRemainingDetail,
                   "Invalid authentication credentials",
                   "Invalid or expired refresh token",
                   ActivationRefused.detail, ResetRefused.detail}
         -> HTTP_401_UNAUTHORIZED
    [] detail \in {AccountIsLockedDetail, AccountLockedNowDetail, NotActivatedDetail,
                   "Account is locked. Please contact support.",
                   "Account not activated. Please activate your account to continue."}
         -> HTTP_403_FORBIDDEN
    [] detail = "New password cannot be the same as any of your last 3 passwords"
         -> HTTP_400_BAD_REQUEST
    [] detail = "User not found" -> 404
    [] OTHER -> 0

\* C33: every error answered by register, activate, login, refresh_token,
\* change_password and reset_password carries the status of its class:
\* duplicate email or phone conflict, invalid credentials or token
\* unauthorized, locked or not activated forbidden, reused password bad
\* request, account not found not-found.
C33_StableStatusClasses ==
  \A i \in 1..Len(log.entries) :
    LET reply == log.entries[i].reply
    IN StatusClassOf(reply.detail) # 0 => reply.status = StatusClassOf(reply.detail)

(* ------------------------------- C34 ---------------------------------- *)
\* an answered login that found no account for the email
UnknownEmailLogin(e) == e.op = "login" /\ e.check = "unknown"

\* an answered login that found an active, unlocked account, was given a wrong
\* password and did not lock the account
WrongPasswordLogin(e) ==
  /\ e.op = "login"
  /\ e.check = "wrong"
  /\ e.reply.detail # AccountLockedNowDetail

\* C34: the answer of a login for an email without account and the answer of a
\* login with a wrong password for an active, unlocked account (that does not
\* lock it) are the same: the same status and the same message "Invalid email
\* or password", so the answer does not tell which of the two fields was wrong.
C34_UniformInvalidCredentials ==
  \A i \in 1..Len(log.entries), j \in 1..Len(log.entries) :
    (UnknownEmailLogin(log.entries[i]) /\ WrongPasswordLogin(log.entries[j]))
    => /\ log.entries[i].reply.status = log.entries[j].reply.status
       /\ log.entries[i].reply.detail = InvalidCredentialsDetail
       /\ log.entries[j].reply.detail = InvalidCredentialsDetail
       /\ log.entries[i].reply = log.entries[j].reply

\* the part of C34 that the code keeps: both answers carry the status 401
C34_SameStatus ==
  \A i \in 1..Len(log.entries) :
    (UnknownEmailLogin(log.entries[i]) \/ WrongPasswordLogin(log.entries[i]))
    => log.entries[i].reply.status = HTTP_401_UNAUTHORIZED

(* ------------------------------- C35 ---------------------------------- *)
\* C35: a login with a wrong password that does not lock the account is answered
\* 401 with the attempts remaining, which are 3 minus the failed_login_attempts
\* that this request stored and at least 1; with requests one after another
\* the number is 2 after the first failure and 1 after the second.
C35_RemainingAttempts ==
  \A i \in 1..Len(log.entries) :
    LET e == log.entries[i]
    IN WrongPasswordLogin(e) =>
         /\ e.reply.status = HTTP_401_UNAUTHORIZED
         /\ e.reply.detail = AttemptsRemainingDetail
         /\ e.reply.tokens = None
         /\ e.after # None
         /\ e.reply.remaining = AttemptsAllowed - e.after[1].failed_login_attempts
         /\ e.reply.remaining >= 1
         /\ e.before[1].failed_login_attempts = 0 => e.reply.remaining = 2
         /\ e.before[1].failed_login_attempts = 1 => e.reply.remaining = 1
         /\ e.before[1].failed_login_attempts \in {0, 1}

\* two wrong-password logins of one account, one after the other, answered
\* with 2 and then 1 attempts remaining
C35_Witness ==
  \E i \in 1..Len(log.entries), j \in 1..Len(log.entries) :
    /\ i < j
    /\ WrongPasswordLogin(log.entries[i]) /\ WrongPasswordLogin(log.entries[j])
    /\ log.entries[i].uid = log.entries[j].uid
    /\ log.entries[i].reply.remaining = 2
    /\ log.entries[j].reply.remaining = 1

\* the part of C35 that does not depend on the order of the requests: the
\* number reported is 3 minus the counter this request stored, and at least 1
C35_RemainingOfStored ==
  \A i \in 1..Len(log.entries) :
    LET e == log.entries[i]
    IN WrongPasswordLogin(e) =>
         /\ e.reply.status = HTTP_401_UNAUTHORIZED
         /\ e.after # None
         /\ e.reply.remaining = AttemptsAllowed - e.after[1].failed_login_attempts
         /\ e.reply.remaining >= 1

(* ------------------------------- C36 ---------------------------------- *)
\* the document login read lets it fail before the password: there is none,
\* or it is locked, or it is not activated
FailsBeforePassword(e) ==
  /\ e.op = "login"
  /\ \/ e.user = None
     \/ e.user[1].is_locked
     \/ ~e.user[1].is_active

\* C36: the step that answers a login whose email is unknown, whose account is
\* locked or whose account is not activated changes no field of any account
\* (failed_login_attempts and last_failed_login included), and the answer is
\* the 401 of the unknown email or the 403 of the locked or unactivated account.
C36_EarlyFailureWritesNothing ==
  [][(log' # log /\ FailsBeforePassword(LastAnswer'))
     => /\ users' = users
        /\ LastAnswer'.before = LastAnswer'.after
        /\ LastAnswer'.reply =
             IF LastAnswer'.user = None
             THEN Reply(HTTP_401_UNAUTHORIZED, InvalidCredentialsDetail)
             ELSE IF LastAnswer'.user[1].is_locked
             THEN Reply(HTTP_403_FORBIDDEN, AccountIsLockedDetail)
             ELSE Reply(HTTP_403_FORBIDDEN, NotActivatedDetail)]_vars

\* a locked account with a counter of 3 and an unactivated one were each the
\* target of a refused login, and their counters are as they were
C36_Witness ==
  \E i \in 1..Len(log.entries), j \in 1..Len(log.entries) :
    /\ log.entries[i].op = "login" /\ log.entries[i].check = "locked"
    /\ log.entries[i].after[1].failed_login_attempts = LockThreshold
    /\ users[log.entries[i].uid].failed_login_attempts = LockThreshold
    /\ log.entries[j].op = "login" /\ log.entries[j].check \in {"inactive", "unknown"}

(* ------------------------------- C37 ---------------------------------- *)
\* C37: in every state, those between the store writes of a register included,
\* every account with is_active = false stores an activation_token and an
\* activation_token_expires.
C37_InactiveHasActivationSecret ==
  \A u \in Accounts :
    ~users[u].is_active =>
      /\ users[u].activation_token # None
      /\ users[u].activation_token_expires # None

\* the state C37 excludes is the one between create_user and
\* set_activation_token: an inactive account without a secret always has its
\* register still in flight, about to write the secret
C37_OnlyWhileRegistering ==
  \A u \in Accounts :
    (~users[u].is_active /\ users[u].activation_token = None) =>
      \E r \in BagToSet(inflight) : r.pc = "register_token" /\ r.uid = u

(* ------------------------------- C38 ---------------------------------- *)
\* a reset_password that was given secret has replaced the hashed_password of
\* its account (update_password returned) and has not yet cleared the secret
ReplacedUsing(r) == r.op = "reset_password" /\ r.pc = "reset_clear"

\* C38: there is no state, between the store writes of reset_password
\* included, in which the hashed_password of an account has been replaced
\* using a reset secret while the account still stores that secret as its
\* reset_password_token with an expiry that has not passed.
C38_ResetAtomic ==
  \A r \in BagToSet(inflight) :
    ReplacedUsing(r) =>
      ~(/\ users[r.uid].reset_password_token = r.token
        /\ users[r.uid].reset_password_token_expires # None
        /\ users[r.uid].reset_password_token_expires[1] > now)

(* ------------------------------- C39 ---------------------------------- *)
\* the calls of check_rate_limit for key that admitted the request, among the
\* first n, at a time less than RateWindow before time t
AdmittedWithin(key, n, t) ==
  {i \in 1..n : checked[key][i].ok /\ t - checked[key][i].time < RateWindow}

\* how often timestamp t is in the store of key
Stored(store, key, t) == Cardinality({i \in 1..Len(store[key]) : store[key][i] = t})

\* for every key, every admitted request has at most limit admitted requests
\* (itself included) in the window that ends with it, and the store holds
\* only times of admitted requests
WindowLimit ==
  \A key \in RateKeys :
    /\ \A j \in 1..Len(checked[key]) :
         checked[key][j].ok =>
           Cardinality(AdmittedWithin(key, j, checked[key][j].time))
             <= rate_limit(key[2])
    /\ \A i \in 1..Len(rate_limit_store[key]) :
         Stored(rate_limit_store, key, rate_limit_store[key][i])
           <= Cardinality({j \in 1..Len(checked[key]) :
                             /\ checked[key][j].ok
                             /\ checked[key][j].time = rate_limit_store[key][i]})

\* the step calls check_rate_limit for key
CallFor(key) == checked'[key] # checked[key]

\* what a call for key does: it admits the request exactly when fewer than
\* limit requests of the key were admitted within the window, whatever the
\* other keys hold; a refused request is answered 429, reaches no handler
\* (no account changes, no request is in flight) and adds no timestamp
CallStep(key) ==
  LET call == checked'[key][Len(checked'[key])]
      limit == IF key[2] = "/api/forgot-password" THEN 3 ELSE 5
  IN /\ \A other \in RateKeys \ {key} :
          /\ checked'[other] = checked[other]
          /\ rate_limit_store'[other] = rate_limit_store[other]
     /\ call.time = clock
     /\ call.ok <=>
          Cardinality(AdmittedWithin(key, Len(checked[key]), clock)) < limit
     /\ call.ok =>
          /\ log' = log
          /\ Stored(rate_limit_store', key, clock)
               = Stored(rate_limit_store, key, clock) + 1
     /\ ~call.ok =>
          /\ Len(log'.entries) = 1
          /\ LastAnswer'.reply = Reply(HTTP_429_TOO_MANY_REQUESTS, TooManyRequestsDetail)
          /\ users' = users
          /\ inflight' = inflight
          /\ Stored(rate_limit_store', key, clock) = Stored(rate_limit_store, key, clock)
          /\ Len(rate_limit_store'[key]) <= Len(rate_limit_store[key])

\* C39: for each key (client IP, path) the limiter admits at most limit
\* requests with admission times within a window of 60 seconds, limit being 5
\* for /api/login and /api/register and 3 for /api/forgot-password; a request
\* over the limit is answered 429 without reaching the handler, is not
\* recorded for the key and changes no account, failed_login_attempts
\* included; the requests of the other keys are unaffected.
C39_RateLimit ==
  /\ []WindowLimit
  /\ [][\A key \in RateKeys : CallFor(key) => CallStep(key)]_vars

\* the first client was refused its sixth login within the window, a login
\* for the account whose counter an admitted wrong password would have
\* incremented; the second client was admitted at the same time
C39_Witness ==
  /\ Len(log.entries) = 1
  /\ LastAnswer.reply.status = HTTP_429_TOO_MANY_REQUESTS
  /\ \E j \in 1..Len(checked[<<"10.0.0.1", "/api/login">>]) :
       LET call == checked[<<"10.0.0.1", "/api/login">>][j]
       IN /\ ~call.ok
          /\ Cardinality(AdmittedWithin(<<"10.0.0.1", "/api/login">>, j, call.time))
               = LoginRegisterLimit
          /\ \E i \in 1..Len(checked[<<"10.0.0.2", "/api/login">>]) :
               /\ checked[<<"10.0.0.2", "/api/login">>][i].ok
               /\ checked[<<"10.0.0.2", "/api/login">>][i].time = call.time
  /\ ~users[1].is_locked
  /\ users[1].failed_login_attempts = 1

\* a request is admitted again once the window has passed: admitted requests
\* of one key exactly RateWindow apart, more than limit together
C39_AdmittedAfterWindow ==
  \E key \in RateKeys :
    /\ Cardinality({j \in 1..Len(checked[key]) : checked[key][j].ok}) > rate_limit(key[2])
    /\ \E i \in 1..Len(checked[key]), j \in 1..Len(checked[key]) :
         /\ checked[key][i].ok /\ checked[key][j].ok
         /\ checked[key][j].time - checked[key][i].time = RateWindow

====
